---------------------------- MODULE Spec2Model ----------------------------
(***************************************************************************)
(* Student Performance Analyzer: the DuckDB-backed tabular store           *)
(* (database_manager.py), the two predicate builders (filter_engine.py,    *)
(* kpi_calculator.py) and the four KPI operations (kpi_calculator.py).     *)
(*                                                                         *)
(* Query texts are strings, as in the source: the predicate builders are   *)
(* modelled by string concatenation and substring search.  Python values   *)
(* are tagged records, so that isinstance() tests can be modelled.         *)
(***************************************************************************)
EXTENDS Integers, Sequences, FiniteSets, TLC

VARIABLES
    connection,   \* DatabaseManager.connection: TRUE = open, FALSE = None
    tables,       \* the tables of schema main: name -> dataset
    views,        \* the temporary views left registered: name -> dataset
    last,         \* the last store / KPI call: its arguments and its outcome
    args,         \* inputs of the predicate builders (pure functions)
    ret,          \* what the last predicate-builder call returned
    session       \* st.session_state: data_loaded, filters, the widgets

vars == <<connection, tables, views, last, args, ret, session>>

(***************************************************************************)
(* Bounds of the model.                                                    *)
(***************************************************************************)
MaxFilterEntries == 2

(***************************************************************************)
(* Python values.                                                          *)
(***************************************************************************)
PyNone == [t |-> "none"]
S(x) == [t |-> "str", s |-> x]
I(n) == [t |-> "int", i |-> n]
B(b) == [t |-> "bool", b |-> b]
L(items) == [t |-> "list", items |-> items]
T(items) == [t |-> "tuple", items |-> items]

\* str(v), as an f-string formats a value
PyStr(v) ==
    CASE v.t = "str" -> v.s
      [] v.t = "int" -> ToString(v.i)
      [] v.t = "bool" -> (IF v.b THEN "True" ELSE "False")
      [] OTHER -> "None"

(***************************************************************************)
(* Strings: str.upper(), str.lower(), the `in` substring test, str.join.   *)
(***************************************************************************)
LowerLetters == "abcdefghijklmnopqrstuvwxyz"
UpperLetters == "ABCDEFGHIJKLMNOPQRSTUVWXYZ"
Digits == "0123456789"

CharAt(s, i) == SubSeq(s, i, i)

IndexIn(alphabet, c) ==
    IF \E i \in 1..Len(alphabet) : CharAt(alphabet, i) = c
    THEN CHOOSE i \in 1..Len(alphabet) : CharAt(alphabet, i) = c
    ELSE 0

\* the letters' case maps, computed once
UpperMap ==
    [c \in {CharAt(LowerLetters, i) : i \in 1..Len(LowerLetters)} |->
        CharAt(UpperLetters, IndexIn(LowerLetters, c))]

LowerMap ==
    [c \in {CharAt(UpperLetters, i) : i \in 1..Len(UpperLetters)} |->
        CharAt(LowerLetters, IndexIn(UpperLetters, c))]

UpperChar(c) == IF c \in DOMAIN UpperMap THEN UpperMap[c] ELSE c

LowerChar(c) == IF c \in DOMAIN LowerMap THEN LowerMap[c] ELSE c

RECURSIVE Upper(_)
Upper(s) == IF Len(s) = 0 THEN "" ELSE UpperChar(CharAt(s, 1)) \o Upper(Tail(s))

RECURSIVE Lower(_)
Lower(s) == IF Len(s) = 0 THEN "" ELSE LowerChar(CharAt(s, 1)) \o Lower(Tail(s))

\* a.lower() == b.lower(), compared character by character
SameLower(a, b) ==
    /\ Len(a) = Len(b)
    /\ \A i \in 1..Len(a) : LowerChar(CharAt(a, i)) = LowerChar(CharAt(b, i))

\* sub in s
Contains(s, sub) ==
    \E i \in 1..(Len(s) - Len(sub) + 1) : SubSeq(s, i, i + Len(sub) - 1) = sub

\* sub in s.upper(), for an upper-case sub
ContainsUpper(s, sub) ==
    \E i \in 1..(Len(s) - Len(sub) + 1) :
        /\ UpperChar(CharAt(s, i)) = CharAt(sub, 1)
        /\ Upper(SubSeq(s, i, i + Len(sub) - 1)) = sub

RECURSIVE Join(_, _)
Join(sep, parts) ==
    IF Len(parts) = 0 THEN ""
    ELSE IF Len(parts) = 1 THEN parts[1]
    ELSE parts[1] \o sep \o Join(sep, Tail(parts))


(***************************************************************************)
(* FilterSpec: a Python dict, i.e. a sequence of entries with distinct     *)
(* keys, iterated in insertion order.                                      *)
(***************************************************************************)
Entry(k, v) == [key |-> k, value |-> v]

\* the available_columns argument: None, or a list of column names
NoColumns == [given |-> FALSE, cols |-> <<>>]
Columns(cs) == [given |-> TRUE, cols |-> cs]

\* `if available_columns:` is false for None and for the empty list
Truthy(available_columns) ==
    available_columns.given /\ Len(available_columns.cols) > 0

\* ResolveColumn without the `if not key_found: continue` skip
ResolveColumnNoSkip(key, cols) ==
    LET hits == {i \in 1..Len(cols) : SameLower(cols[i], key)}
    IN IF hits = {} THEN [key_found |-> TRUE, actual_key |-> key]
       ELSE [key_found |-> TRUE,
             actual_key |-> cols[CHOOSE i \in hits : \A j \in hits : i <= j]]

\* the loop over available_columns: the first column equal to key when both
\* are lower-cased
ResolveColumn(key, cols) ==
    LET hits == {i \in 1..Len(cols) : SameLower(cols[i], key)}
    IN IF hits = {} THEN [key_found |-> FALSE, actual_key |-> key]
       ELSE [key_found |-> TRUE,
             actual_key |-> cols[CHOOSE i \in hits : \A j \in hits : i <= j]]

\* a condition appended to conditions: its text, and the column and the value
\* the text compares (what the store evaluates when it runs the text)
Condition(text, col, value) == [text |-> text, col |-> col, value |-> value]

Texts(conditions) == [i \in 1..Len(conditions) |-> conditions[i].text]

\* the if / elif chain that appends to conditions
ConditionFor(key, actual_key, value) ==
    IF key = "age" /\ value.t = "tuple" /\ Len(value.items) = 2
    THEN <<Condition("\"" \o actual_key \o "\" BETWEEN " \o PyStr(value.items[1])
                       \o " AND " \o PyStr(value.items[2]), actual_key, value)>>
    ELSE IF value.t = "str"
    THEN <<Condition("\"" \o actual_key \o "\" = '" \o value.s \o "'", actual_key, value)>>
    ELSE IF value.t \in {"int", "bool"}
    THEN <<Condition("\"" \o actual_key \o "\" = " \o PyStr(value), actual_key, value)>>
    ELSE <<>>

\* one iteration of the loop over self.filters.items()
EntryConditions(entry, available_columns) ==
    IF entry.value.t = "none" THEN <<>>
    ELSE IF Truthy(available_columns)
    THEN LET r == ResolveColumn(entry.key, available_columns.cols)
         IN IF ~r.key_found THEN <<>>
            ELSE ConditionFor(entry.key, r.actual_key, entry.value)
    ELSE ConditionFor(entry.key, entry.key, entry.value)

\* KpiConditions with conditions.insert(0, ...) in place of append
RECURSIVE KpiConditionsReversed(_, _)
KpiConditionsReversed(fs, available_columns) ==
    IF Len(fs) = 0 THEN <<>>
    ELSE KpiConditionsReversed(Tail(fs), available_columns)
           \o EntryConditions(fs[1], available_columns)

\* the loop over self.filters.items(): the list conditions
RECURSIVE KpiConditions(_, _)
KpiConditions(fs, available_columns) ==
    IF Len(fs) = 0 THEN <<>>
    ELSE EntryConditions(fs[1], available_columns)
           \o KpiConditions(Tail(fs), available_columns)

\* "WHERE" in base_query.upper()
HasWhere(base_query) == ContainsUpper(base_query, "WHERE")

\* KPICalculator._apply_filters_to_query, with self.filters as fs
ApplyFiltersToQuery(base_query, fs, available_columns) ==
    IF Len(fs) = 0 THEN base_query
    ELSE LET conditions == KpiConditions(fs, available_columns)
         IN IF Len(conditions) = 0 THEN base_query
            ELSE LET where_clause == Join(" AND ", Texts(conditions))
                 IN IF HasWhere(base_query)
                    THEN base_query \o " AND " \o where_clause
                    ELSE base_query \o " WHERE " \o where_clause

(***************************************************************************)
(* FilterEngine: the general predicate builder.                            *)
(***************************************************************************)
RECURSIVE ListItems(_)
ListItems(items) ==
    IF Len(items) = 0 THEN <<>>
    ELSE <<IF items[1].t = "str" THEN "'" \o items[1].s \o "'"
           ELSE PyStr(items[1])>> \o ListItems(Tail(items))

\* build_filter_query refusing a range whose bounds are not in order
BuildConditionValidating(key, value) ==
    IF value.t = "list" /\ Len(value.items) > 0
    THEN <<key \o " IN (" \o Join(", ", ListItems(value.items)) \o ")">>
    ELSE IF value.t = "tuple" /\ Len(value.items) = 2
    THEN (IF value.items[1].i > value.items[2].i THEN <<>>
          ELSE <<key \o " BETWEEN " \o PyStr(value.items[1]) \o " AND "
                   \o PyStr(value.items[2])>>)
    ELSE IF value.t = "str"
    THEN <<key \o " = '" \o value.s \o "'">>
    ELSE IF value.t \in {"int", "bool"}
    THEN <<key \o " = " \o PyStr(value)>>
    ELSE <<>>

BuildCondition(key, value) ==
    IF value.t = "list" /\ Len(value.items) > 0
    THEN <<key \o " IN (" \o Join(", ", ListItems(value.items)) \o ")">>
    ELSE IF value.t = "tuple" /\ Len(value.items) = 2
    THEN <<key \o " BETWEEN " \o PyStr(value.items[1]) \o " AND "
             \o PyStr(value.items[2])>>
    ELSE IF value.t = "str"
    THEN <<key \o " = '" \o value.s \o "'">>
    ELSE IF value.t \in {"int", "bool"}
    THEN <<key \o " = " \o PyStr(value)>>
    ELSE <<>>

RECURSIVE BuildConditions(_)
BuildConditions(fs) ==
    IF Len(fs) = 0 THEN <<>>
    ELSE (IF fs[1].value.t = "none" THEN <<>>
          ELSE BuildCondition(fs[1].key, fs[1].value))
           \o BuildConditions(Tail(fs))

\* FilterEngine.build_filter_query
BuildFilterQuery(fs) ==
    IF Len(fs) = 0 THEN "" ELSE Join(" AND ", BuildConditions(fs))

\* FilterEngine.apply_filters
ApplyFilters(base_query, fs) ==
    LET where_clause == BuildFilterQuery(fs)
    IN IF where_clause = "" THEN base_query
       ELSE IF HasWhere(base_query)
       THEN base_query \o " AND " \o where_clause
       ELSE base_query \o " WHERE " \o where_clause


\* validate_filters with the `value[0] > value[1]` test left out
ValidationErrorsNoOrderTest(key, value) ==
    IF value.t = "list" /\ Len(value.items) = 0
    THEN <<"Filter '" \o key \o "' has empty list">>
    ELSE IF value.t = "tuple" /\ Len(value.items) # 2
    THEN <<"Filter '" \o key \o "' range must have exactly 2 values">>
    ELSE <<>>

\* the body of the loop of validate_filters: what one entry appends to errors
ValidationErrors(key, value) ==
    IF value.t = "none" THEN <<>>
    ELSE IF value.t = "list"
    THEN (IF Len(value.items) = 0
          THEN <<"Filter '" \o key \o "' has empty list">>
          ELSE <<>>)
    ELSE IF value.t = "tuple"
    THEN (IF Len(value.items) # 2
          THEN <<"Filter '" \o key \o "' range must have exactly 2 values">>
          ELSE IF value.items[1].i > value.items[2].i
          THEN <<"Filter '" \o key \o "' range start is greater than end">>
          ELSE <<>>)
    ELSE <<>>

RECURSIVE AllValidationErrors(_)
AllValidationErrors(fs) ==
    IF Len(fs) = 0 THEN <<>>
    ELSE ValidationErrors(fs[1].key, fs[1].value) \o AllValidationErrors(Tail(fs))

\* FilterEngine.validate_filters: (is_valid, error_messages)
ValidateFilters(fs) ==
    LET errors == AllValidationErrors(fs)
    IN [valid |-> Len(errors) = 0, errors |-> errors]

(***************************************************************************)
(* The tabular store (DatabaseManager over a DuckDB connection).           *)
(*                                                                         *)
(* A dataset (pandas DataFrame, DuckDB table) is a list of column names    *)
(* and a list of rows; a row maps each column name to a cell.  A cell is a *)
(* tagged value: I(n), S(x), Null, or Complex (a numpy complex128, which   *)
(* DuckDB cannot scan).                                                    *)
(***************************************************************************)
Null == [t |-> "null"]
Complex == [t |-> "complex"]

Dataset(columns, rows) == [columns |-> columns, rows |-> rows]

\* DataFrame.empty: no rows or no columns
IsEmpty(df) == Len(df.rows) = 0 \/ Len(df.columns) = 0

\* whether DuckDB can scan the DataFrame (every dtype has a DuckDB type)
Scannable(df) ==
    \A r \in 1..Len(df.rows) : \A c \in DOMAIN df.rows[r] : df.rows[r][c].t # "complex"

EmptyMap == [n \in {} |-> 0]

\* a store that loses the last row of what it is given
PutWithoutLastRow(map, name, value) ==
    [n \in DOMAIN map \cup {name} |->
        IF n = name
        THEN [value EXCEPT !.rows = SubSeq(value.rows, 1, Len(value.rows) - 1)]
        ELSE map[n]]

Put(map, name, value) ==
    [n \in DOMAIN map \cup {name} |-> IF n = name THEN value ELSE map[n]]

Remove(map, name) == [n \in DOMAIN map \ {name} |-> map[n]]

IsLetter(c) == c \in DOMAIN UpperMap \/ c \in DOMAIN LowerMap

IsDigit(c) == \E d \in 1..Len(Digits) : CharAt(Digits, d) = c

\* str.isalnum() on ASCII text: non-empty, letters and digits only
IsAlnum(s) ==
    Len(s) > 0 /\ \A i \in 1..Len(s) : IsLetter(CharAt(s, i)) \/ IsDigit(CharAt(s, i))

\* s.replace(c, "")
RECURSIVE RemoveChar(_, _)
RemoveChar(s, c) ==
    IF Len(s) = 0 THEN ""
    ELSE (IF CharAt(s, 1) = c THEN "" ELSE CharAt(s, 1)) \o RemoveChar(Tail(s), c)

\* the table_name test of import_data without the isalnum() part
ValidTableNameNonEmpty(table_name) == table_name # ""

\* the table_name test of import_data (negated: the name passes)
ValidTableName(table_name) ==
    table_name # "" /\ IsAlnum(RemoveChar(table_name, "_"))

\* words DuckDB's parser reserves: not usable as an unquoted table name
ReservedWords == {"select", "table", "order", "group", "from", "where"}

\* whether DuckDB parses the text as one unquoted identifier, as it must where
\* a statement interpolates {table_name}
ParsesAsIdentifier(name) ==
    /\ Len(name) > 0
    /\ IsLetter(CharAt(name, 1)) \/ CharAt(name, 1) = "_"
    /\ \A i \in 1..Len(name) :
          IsLetter(CharAt(name, i)) \/ IsDigit(CharAt(name, i)) \/ CharAt(name, i) = "_"
    /\ Lower(name) \notin ReservedWords

\* a quoted identifier: "..." around any text without a double quote
IsQuoted(text) ==
    /\ Len(text) >= 3
    /\ CharAt(text, 1) = "\"" /\ CharAt(text, Len(text)) = "\""
    /\ \A i \in 2..(Len(text) - 1) : CharAt(text, i) # "\""

\* whether DuckDB parses the text as a table name, quoted or not
ParsesAsTableName(text) == IsQuoted(text) \/ ParsesAsIdentifier(text)

\* the table the text names: a quoted identifier names what is between the
\* quotes
TableNamed(text) ==
    IF IsQuoted(text) THEN SubSeq(text, 2, Len(text) - 1) ELSE text

\* name resolution of an unqualified relation: schema temp (the registered
\* views) is searched before schema main (the tables)
RelationExists(name, tbls, vws) == name \in DOMAIN vws \/ name \in DOMAIN tbls

Relation(name, tbls, vws) == IF name \in DOMAIN vws THEN vws[name] ELSE tbls[name]

\* connection.execute("DROP TABLE IF EXISTS {name}"): the store afterwards, or
\* the failure.  A view found under the name is not a table: a catalog error.
DropTableIfExists(name, conn, tbls, vws) ==
    IF ~conn THEN [ok |-> FALSE, cause |-> "no connection", tables |-> tbls]
    ELSE IF ~ParsesAsTableName(name)
    THEN [ok |-> FALSE, cause |-> "parser error", tables |-> tbls]
    ELSE IF TableNamed(name) \in DOMAIN vws
    THEN [ok |-> FALSE, cause |-> "catalog error: is a view", tables |-> tbls]
    ELSE [ok |-> TRUE, cause |-> "", tables |-> Remove(tbls, TableNamed(name))]

\* DatabaseManager.import_data: the outcome and the store it leaves.
\*   replace: DROP TABLE IF EXISTS; then register (CREATE OR REPLACE TEMPORARY
\*   VIEW over df), CREATE TABLE .. AS SELECT * FROM the view, unregister.
\* Each statement commits on its own; a failure leaves what the statements
\* before it did (a dropped table, a registered view).
ImportDataResult(df, table_name, if_exists, conn, tbls, vws) ==
    IF IsEmpty(df)
    THEN [outcome |-> "ValueError", cause |-> "Cannot import empty DataFrame",
          tables |-> tbls, views |-> vws]
    ELSE IF ~ValidTableName(table_name)
    THEN [outcome |-> "ValueError", cause |-> "Invalid table name: " \o table_name,
          tables |-> tbls, views |-> vws]
    ELSE LET dropped == IF if_exists = "replace"
                        THEN DropTableIfExists(table_name, conn, tbls, vws)
                        ELSE [ok |-> TRUE, cause |-> "", tables |-> tbls]
         IN IF ~dropped.ok
            THEN [outcome |-> "RuntimeError", cause |-> dropped.cause,
                  tables |-> tbls, views |-> vws]
            ELSE IF ~conn
            THEN [outcome |-> "RuntimeError", cause |-> "no connection",
                  tables |-> dropped.tables, views |-> vws]
            ELSE IF ~Scannable(df)
            THEN [outcome |-> "RuntimeError", cause |-> "register: dtype not supported",
                  tables |-> dropped.tables, views |-> vws]
            ELSE IF ~ParsesAsIdentifier(table_name)
            THEN [outcome |-> "RuntimeError", cause |-> "parser error",
                  tables |-> dropped.tables, views |-> Put(vws, table_name, df)]
            ELSE IF table_name \in DOMAIN dropped.tables
            THEN [outcome |-> "RuntimeError", cause |-> "catalog error: table exists",
                  tables |-> dropped.tables, views |-> Put(vws, table_name, df)]
            ELSE [outcome |-> "ok", cause |-> "",
                  tables |-> Put(dropped.tables, table_name, df),
                  views |-> Remove(vws, table_name)]

(***************************************************************************)
(* The KPI operations (KPICalculator).  The query texts are the source's.   *)
(***************************************************************************)
PrimaryTable == "student_habits_performance"
SecondaryTable == "student_performance_factors"

\* kpi_calculator.py line 90
Kpi1PrimaryBase ==
    "\n"
      \o "            SELECT \n"
      \o "                gender as group,\n"
      \o "                AVG(exam_score) as average_score,\n"
      \o "                COUNT(*) as count\n"
      \o "            FROM student_habits_performance\n"
      \o "            "

\* kpi_calculator.py line 106
Kpi1SecondaryBase ==
    "\n"
      \o "                SELECT \n"
      \o "                    \"Gender\" as group,\n"
      \o "                    AVG(\"Exam_Score\") as average_score,\n"
      \o "                    COUNT(*) as count\n"
      \o "                FROM student_performance_factors\n"
      \o "                "

\* kpi_calculator.py line 134
Kpi2PrimaryBase ==
    "\n"
      \o "            SELECT \n"
      \o "                study_hours_per_day as study_hours,\n"
      \o "                exam_score\n"
      \o "            FROM student_habits_performance\n"
      \o "            WHERE study_hours_per_day IS NOT NULL \n"
      \o "                AND exam_score IS NOT NULL\n"
      \o "            "

\* kpi_calculator.py line 150
Kpi2SecondaryBase ==
    "\n"
      \o "                SELECT \n"
      \o "                    \"Hours_Studied\" as study_hours,\n"
      \o "                    \"Exam_Score\" as exam_score\n"
      \o "                FROM student_performance_factors\n"
      \o "                WHERE \"Hours_Studied\" IS NOT NULL \n"
      \o "                    AND \"Exam_Score\" IS NOT NULL\n"
      \o "                "

\* kpi_calculator.py line 179
Kpi3PrimaryBase ==
    "\n"
      \o "            SELECT \n"
      \o "                ROUND(attendance_percentage / 10) * 10 as attendance_range,\n"
      \o "                AVG(exam_score) as average_score,\n"
      \o "                COUNT(*) as count\n"
      \o "            FROM student_habits_performance\n"
      \o "            WHERE attendance_percentage IS NOT NULL \n"
      \o "                AND exam_score IS NOT NULL\n"
      \o "            "

\* kpi_calculator.py line 196
Kpi3SecondaryBase ==
    "\n"
      \o "                SELECT \n"
      \o "                    ROUND(\"Attendance\" / 10) * 10 as attendance_range,\n"
      \o "                    AVG(\"Exam_Score\") as average_score,\n"
      \o "                    COUNT(*) as count\n"
      \o "                FROM student_performance_factors\n"
      \o "                WHERE \"Attendance\" IS NOT NULL \n"
      \o "                    AND \"Exam_Score\" IS NOT NULL\n"
      \o "                "

\* kpi_calculator.py line 226
Kpi4PrimaryBase ==
    "\n"
      \o "            SELECT \n"
      \o "                sleep_hours,\n"
      \o "                exam_score\n"
      \o "            FROM student_habits_performance\n"
      \o "            WHERE sleep_hours IS NOT NULL \n"
      \o "                AND exam_score IS NOT NULL\n"
      \o "            "

\* kpi_calculator.py line 242
Kpi4SecondaryBase ==
    "\n"
      \o "                SELECT \n"
      \o "                    \"Sleep_Hours\" as sleep_hours,\n"
      \o "                    \"Exam_Score\" as exam_score\n"
      \o "                FROM student_performance_factors\n"
      \o "                WHERE \"Sleep_Hours\" IS NOT NULL \n"
      \o "                    AND \"Exam_Score\" IS NOT NULL\n"
      \o "                "

\* the literals of calculate_kpi_<n>, per attempt: the table, the query text
\* before and after the injected filters, the columns the text reads
KpiAttempt(n, attempt) ==
    CASE n = 1 /\ attempt = "primary" ->
          [table |-> PrimaryTable, base |-> Kpi1PrimaryBase,
           suffix |-> " GROUP BY gender ORDER BY average_score DESC",
           key_col |-> "gender", score_col |-> "exam_score", not_null |-> FALSE]
      [] n = 1 /\ attempt = "secondary" ->
          [table |-> SecondaryTable, base |-> Kpi1SecondaryBase,
           suffix |-> " GROUP BY \"Gender\" ORDER BY average_score DESC",
           key_col |-> "Gender", score_col |-> "Exam_Score", not_null |-> FALSE]
      [] n = 2 /\ attempt = "primary" ->
          [table |-> PrimaryTable, base |-> Kpi2PrimaryBase,
           suffix |-> " ORDER BY study_hours_per_day",
           key_col |-> "study_hours_per_day", score_col |-> "exam_score", not_null |-> TRUE]
      [] n = 2 /\ attempt = "secondary" ->
          [table |-> SecondaryTable, base |-> Kpi2SecondaryBase,
           suffix |-> " ORDER BY \"Hours_Studied\"",
           key_col |-> "Hours_Studied", score_col |-> "Exam_Score", not_null |-> TRUE]
      [] n = 3 /\ attempt = "primary" ->
          [table |-> PrimaryTable, base |-> Kpi3PrimaryBase,
           suffix |-> " GROUP BY ROUND(attendance_percentage / 10) * 10 ORDER BY attendance_range",
           key_col |-> "attendance_percentage", score_col |-> "exam_score", not_null |-> TRUE]
      [] n = 3 /\ attempt = "secondary" ->
          [table |-> SecondaryTable, base |-> Kpi3SecondaryBase,
           suffix |-> " GROUP BY ROUND(\"Attendance\" / 10) * 10 ORDER BY attendance_range",
           key_col |-> "Attendance", score_col |-> "Exam_Score", not_null |-> TRUE]
      [] n = 4 /\ attempt = "primary" ->
          [table |-> PrimaryTable, base |-> Kpi4PrimaryBase,
           suffix |-> " ORDER BY sleep_hours",
           key_col |-> "sleep_hours", score_col |-> "exam_score", not_null |-> TRUE]
      [] n = 4 /\ attempt = "secondary" ->
          [table |-> SecondaryTable, base |-> Kpi4SecondaryBase,
           suffix |-> " ORDER BY \"Sleep_Hours\"",
           key_col |-> "Sleep_Hours", score_col |-> "Exam_Score", not_null |-> TRUE]

\* every attempt with the column list of the primary attempt
KpiAvailableColumnsPrimaryOnly(n, attempt) ==
    CASE n = 1 ->
          <<"age", "gender", "parental_education_level", "exam_score">>
      [] n = 2 ->
          <<"age", "gender", "parental_education_level", "study_hours_per_day", "exam_score">>
      [] n = 3 ->
          <<"age", "gender", "parental_education_level", "attendance_percentage", "exam_score">>
      [] n = 4 ->
          <<"age", "gender", "parental_education_level", "sleep_hours", "exam_score">>

\* available_cols_habits / available_cols_factors of calculate_kpi_<n>
KpiAvailableColumns(n, attempt) ==
    CASE n = 1 /\ attempt = "primary" ->
          <<"age", "gender", "parental_education_level", "exam_score">>
      [] n = 1 /\ attempt = "secondary" ->
          <<"Gender", "Parental_Education_Level", "Exam_Score">>
      [] n = 2 /\ attempt = "primary" ->
          <<"age", "gender", "parental_education_level", "study_hours_per_day", "exam_score">>
      [] n = 2 /\ attempt = "secondary" ->
          <<"Gender", "Parental_Education_Level", "Hours_Studied", "Exam_Score">>
      [] n = 3 /\ attempt = "primary" ->
          <<"age", "gender", "parental_education_level", "attendance_percentage", "exam_score">>
      [] n = 3 /\ attempt = "secondary" ->
          <<"Gender", "Parental_Education_Level", "Attendance", "Exam_Score">>
      [] n = 4 /\ attempt = "primary" ->
          <<"age", "gender", "parental_education_level", "sleep_hours", "exam_score">>
      [] n = 4 /\ attempt = "secondary" ->
          <<"Gender", "Parental_Education_Level", "Sleep_Hours", "Exam_Score">>

(***************************************************************************)
(* What DuckDB answers to the KPI query texts.                             *)
(***************************************************************************)
\* the column of ds an identifier denotes (identifiers match without regard
\* to case, quoted or not); "" when ds has no such column
ColumnOf(ds, name) ==
    LET hits == {i \in 1..Len(ds.columns) : SameLower(ds.columns[i], name)}
    IN IF hits = {} THEN ""
       ELSE ds.columns[CHOOSE i \in hits : \A j \in hits : i <= j]

\* the type of a column: BIGINT when its cells are numbers, else VARCHAR
ColumnType(ds, c) ==
    IF \E r \in 1..Len(ds.rows) : ds.rows[r][c].t = "str" THEN "str" ELSE "int"

\* whether the literal of a condition can be compared with column c
ConditionTypeOk(ds, c, cond) ==
    IF cond.value.t = "str" THEN ColumnType(ds, c) = "str"
    ELSE IF cond.value.t \in {"int", "tuple"} THEN ColumnType(ds, c) = "int"
    ELSE FALSE

\* col = 'text', col = number, col BETWEEN lo AND hi on one cell; a comparison
\* with NULL is not true
ConditionHolds(cell, cond) ==
    CASE cond.value.t = "str" -> cell.t = "str" /\ cell.s = cond.value.s
      [] cond.value.t = "int" -> cell.t = "int" /\ cell.i = cond.value.i
      [] cond.value.t = "tuple" ->
           /\ cell.t = "int"
           /\ cond.value.items[1].i <= cell.i
           /\ cell.i <= cond.value.items[2].i
      [] OTHER -> FALSE

\* the WHERE clause without the IS NOT NULL test of the score
KeptRowsWithNullScores(ds, not_null, key, score, conds, condcols) ==
    LET Keep(row) ==
            /\ not_null => row[key].t # "null"
            /\ \A k \in 1..Len(conds) : ConditionHolds(row[condcols[k]], conds[k])
    IN SelectSeq(ds.rows, Keep)

\* the rows the WHERE clause keeps: the IS NOT NULL tests of the text (KPI 2,
\* 3, 4) and the injected conditions; key, score and condcols are the columns
\* of ds the text names
KeptRows(ds, not_null, key, score, conds, condcols) ==
    LET Keep(row) ==
            /\ not_null => (row[key].t # "null" /\ row[score].t # "null")
            /\ \A k \in 1..Len(conds) : ConditionHolds(row[condcols[k]], conds[k])
    IN SelectSeq(ds.rows, Keep)

\* AVG(score) over rows: the sum and the number of the non-NULL scores
Average(rows, score) ==
    LET scored == SelectSeq(rows, LAMBDA r : r[score].t = "int")
        Sum[k \in 0..Len(scored)] ==
            IF k = 0 THEN 0 ELSE Sum[k - 1] + scored[k][score].i
    IN [sum |-> Sum[Len(scored)], n |-> Len(scored)]

\* ROUND(x / 10) * 10 with / dividing integers: the bin below
AttendanceRangeIntegerDivision(x) == (x \div 10) * 10

\* ROUND(x / 10) * 10 for x >= 0: halves round away from zero
AttendanceRange(x) == ((x + 5) \div 10) * 10

\* the GROUP BY key of a row: the gender (KPI 1) or the attendance bin (KPI 3)
GroupKey(n, cell) ==
    IF n = 3 THEN I(AttendanceRange(cell.i)) ELSE cell

\* the result rows before ORDER BY, in some order
Unordered(n, key, score, rows) ==
    LET Members(g) == SelectSeq(rows, LAMBDA r : GroupKey(n, r[key]) = g)
        \* the distinct group keys, by first appearance
        Keys[k \in 0..Len(rows)] ==
            IF k = 0 THEN <<>>
            ELSE IF \E j \in 1..Len(Keys[k - 1]) :
                        Keys[k - 1][j] = GroupKey(n, rows[k][key])
            THEN Keys[k - 1]
            ELSE Append(Keys[k - 1], GroupKey(n, rows[k][key]))
        groups == Keys[Len(rows)]
    IN CASE n = 1 ->
              [g \in 1..Len(groups) |->
                  [group |-> groups[g],
                   average_score |-> Average(Members(groups[g]), score),
                   count |-> Len(Members(groups[g]))]]
         [] n = 2 ->
              [r \in 1..Len(rows) |->
                  [study_hours |-> rows[r][key], exam_score |-> rows[r][score]]]
         [] n = 3 ->
              [g \in 1..Len(groups) |->
                  [attendance_range |-> groups[g],
                   average_score |-> Average(Members(groups[g]), score),
                   count |-> Len(Members(groups[g]))]]
         [] n = 4 ->
              [r \in 1..Len(rows) |->
                  [sleep_hours |-> rows[r][key], exam_score |-> rows[r][score]]]

\* ORDER BY with every key ascending
MayPrecedeAscending(n, a, b) ==
    CASE n = 1 -> a.average_score.sum * b.average_score.n
                    <= b.average_score.sum * a.average_score.n
      [] n = 2 -> a.study_hours.i <= b.study_hours.i
      [] n = 3 -> a.attendance_range.i <= b.attendance_range.i
      [] n = 4 -> a.sleep_hours.i <= b.sleep_hours.i

\* ORDER BY: whether result row a may stand before result row b
MayPrecede(n, a, b) ==
    CASE n = 1 -> a.average_score.sum * b.average_score.n
                    >= b.average_score.sum * a.average_score.n
      [] n = 2 -> a.study_hours.i <= b.study_hours.i
      [] n = 3 -> a.attendance_range.i <= b.attendance_range.i
      [] n = 4 -> a.sleep_hours.i <= b.sleep_hours.i

\* every order of the rows ORDER BY allows (rows with equal keys: any order)
Ordered(n, out) ==
    LET perms == {p \in [1..Len(out) -> 1..Len(out)] :
                     \A i, j \in 1..Len(out) : i # j => p[i] # p[j]}
    IN {[i \in 1..Len(out) |-> out[p[i]]] : p \in
           {q \in perms : \A i, j \in 1..Len(out) :
               i < j => MayPrecede(n, out[q[i]], out[q[j]])}}

\* text.strip() == ""
IsBlank(text) ==
    \A i \in 1..Len(text) : CharAt(text, i) \in {" ", "\n", "\t"}

Failed(outcome, message) == [outcome |-> outcome, message |-> message, results |-> {}]

\* connection.execute(text).fetchall() for the text of a KPI attempt with the
\* conditions conds injected: the failure, or the result sets it may return
RunKpiQuery(n, attempt, conds, conn, tbls, vws) ==
    IF ~conn THEN Failed("error", "no connection")
    ELSE IF \E k \in 1..Len(conds) :
                conds[k].value.t = "str" /\ Contains(conds[k].value.s, "'")
    THEN Failed("error", "Parser Error")
    ELSE IF ~RelationExists(attempt.table, tbls, vws)
    THEN Failed("error", "Catalog Error: table does not exist")
    ELSE LET ds == Relation(attempt.table, tbls, vws)
             key == ColumnOf(ds, attempt.key_col)
             score == ColumnOf(ds, attempt.score_col)
             condcols == [k \in 1..Len(conds) |-> ColumnOf(ds, conds[k].col)]
         IN IF key = "" \/ score = "" \/ \E k \in 1..Len(conds) : condcols[k] = ""
            THEN Failed("error", "Binder Error: column not found")
            ELSE IF \E k \in 1..Len(conds) : ~ConditionTypeOk(ds, condcols[k], conds[k])
            THEN Failed("error", "Conversion Error")
            ELSE [outcome |-> "ok", message |-> "",
                  results |->
                      Ordered(n, Unordered(n, key, score,
                          KeptRows(ds, attempt.not_null, key, score, conds, condcols)))]

\* DatabaseManager.execute_query on the text of a KPI attempt
ExecuteKpiQuery(text, n, attempt, conds, conn, tbls, vws) ==
    IF IsBlank(text) THEN Failed("ValueError", "Query cannot be empty")
    ELSE LET run == RunKpiQuery(n, attempt, conds, conn, tbls, vws)
         IN IF run.outcome = "ok" THEN run
            ELSE Failed("RuntimeError", "Query execution failed: " \o run.message)

\* `if result.empty:` is reached and true, also when the primary query raised
SecondaryAttemptedAlsoOnFailure(first) == ~first.ok \/ first.rows = <<>>

\* `if result.empty:` is reached (the primary query returned) and true
SecondaryAttempted(first) == first.ok /\ first.rows = <<>>

\* the message with the number of KPI 1 in every calculate_kpi_<n>
KpiErrorMessageOfKpi1(n, cause) == "Failed to calculate KPI 1: " \o cause

\* the except clause of calculate_kpi_<n>: RuntimeError(f"Failed to calculate
\* KPI <n>: {str(e)}")
KpiErrorMessage(n, cause) == "Failed to calculate KPI " \o ToString(n) \o ": " \o cause

\* one attempt of calculate_kpi_<n>: the text built (base, injected filters,
\* suffix), and what execute_query answers
KpiAttemptRuns(n, which, fs, conn, tbls, vws) ==
    LET attempt == KpiAttempt(n, which)
        cols == Columns(KpiAvailableColumns(n, which))
        text == ApplyFiltersToQuery(attempt.base, fs, cols) \o attempt.suffix
        ex == ExecuteKpiQuery(text, n, attempt, KpiConditions(fs, cols), conn, tbls, vws)
    IN IF ex.outcome = "ok"
       THEN {[table |-> attempt.table, text |-> text, ok |-> TRUE,
              message |-> "", rows |-> r] : r \in ex.results}
       ELSE {[table |-> attempt.table, text |-> text, ok |-> FALSE,
              message |-> ex.message, rows |-> <<>>]}

KpiReturned(n, fs, attempts, result) ==
    [op |-> "kpi", n |-> n, fs |-> fs, attempts |-> attempts, outcome |-> "ok",
     message |-> "", result |-> result]

KpiRaised(n, fs, attempts, cause) ==
    [op |-> "kpi", n |-> n, fs |-> fs, attempts |-> attempts, outcome |-> "RuntimeError",
     message |-> KpiErrorMessage(n, cause), result |-> <<>>]

\* calculate_kpi_<n>: every way the call can end
KpiOutcomes(n, fs, conn, tbls, vws) ==
    UNION {
        IF SecondaryAttempted(first)
        THEN {IF second.ok THEN KpiReturned(n, fs, <<first, second>>, second.rows)
              ELSE KpiRaised(n, fs, <<first, second>>, second.message) :
                second \in KpiAttemptRuns(n, "secondary", fs, conn, tbls, vws)}
        ELSE IF first.ok THEN {KpiReturned(n, fs, <<first>>, first.rows)}
        ELSE {KpiRaised(n, fs, <<first>>, first.message)} :
          first \in KpiAttemptRuns(n, "primary", fs, conn, tbls, vws)}

\* The query texts execute_query is given, each with what DuckDB's parser
\* makes of it: the statements DROP TABLE IF EXISTS <name> for the names of
\* first, then SELECT <column> FROM <from>.
SelectAll(name) ==
    [text |-> "SELECT * FROM " \o name, from |-> name, column |-> "*", first |-> <<>>]

SelectColumn(column, name) ==
    [text |-> "SELECT " \o column \o " FROM " \o name, from |-> name,
     column |-> column, first |-> <<>>]

DropThenSelectAll(dropped, name) ==
    [text |-> "DROP TABLE IF EXISTS " \o dropped \o "; SELECT * FROM " \o name,
     from |-> name, column |-> "*", first |-> <<dropped>>]

BlankQuery(text) == [text |-> text, from |-> "", column |-> "*", first |-> <<>>]

\* the statements before the last one of a text are executed one after the
\* other, each committing on its own
RECURSIVE DropAll(_, _, _, _)
DropAll(names, conn, tbls, vws) ==
    IF Len(names) = 0 THEN [ok |-> TRUE, cause |-> "", tables |-> tbls]
    ELSE LET dropped == DropTableIfExists(names[1], conn, tbls, vws)
         IN IF ~dropped.ok THEN dropped
            ELSE DropAll(Tail(names), conn, dropped.tables, vws)

QueryFailed(outcome, message, tbls) ==
    [outcome |-> outcome, message |-> message, rows |-> <<>>, tables |-> tbls]

\* DatabaseManager.execute_query: the outcome, the rows and the tables the
\* store holds afterwards.  The text is parsed as a whole before any of its
\* statements runs.
ExecuteQueryResult(q, conn, tbls, vws) ==
    IF IsBlank(q.text) THEN QueryFailed("ValueError", "Query cannot be empty", tbls)
    ELSE IF ~conn
    THEN QueryFailed("RuntimeError", "Query execution failed: no connection", tbls)
    ELSE IF \/ ~ParsesAsTableName(q.from)
            \/ q.column # "*" /\ ~ParsesAsTableName(q.column)
            \/ \E k \in 1..Len(q.first) : ~ParsesAsTableName(q.first[k])
    THEN QueryFailed("RuntimeError", "Query execution failed: Parser Error", tbls)
    ELSE LET dropped == DropAll(q.first, conn, tbls, vws)
             from == TableNamed(q.from)
         IN IF ~dropped.ok
            THEN QueryFailed("RuntimeError",
                             "Query execution failed: " \o dropped.cause, dropped.tables)
            ELSE IF ~RelationExists(from, dropped.tables, vws)
            THEN QueryFailed("RuntimeError",
                     "Query execution failed: Catalog Error: table does not exist",
                     dropped.tables)
            ELSE LET ds == Relation(from, dropped.tables, vws)
                     column == IF q.column = "*" THEN "*"
                               ELSE ColumnOf(ds, TableNamed(q.column))
                 IN IF column = ""
                    THEN QueryFailed("RuntimeError",
                             "Query execution failed: Binder Error: column not found",
                             dropped.tables)
                    ELSE [outcome |-> "ok", message |-> "",
                          rows |-> IF column = "*" THEN ds.rows
                                   ELSE [r \in 1..Len(ds.rows) |->
                                            [c \in {column} |-> ds.rows[r][column]]],
                          tables |-> dropped.tables]

\* DatabaseManager.get_available_tables: the table names of schema main, or
\* the RuntimeError raised when the connection is gone
GetAvailableTables(conn, tbls) ==
    IF ~conn
    THEN [outcome |-> "RuntimeError",
          message |-> "Failed to retrieve table list: no connection", names |-> {}]
    ELSE [outcome |-> "ok", message |-> "", names |-> DOMAIN tbls]

\* table_exists letting the failure of the lookup through
TableExistsResultFailLoud(table_name, conn, tbls) ==
    [outcome |-> GetAvailableTables(conn, tbls).outcome,
     result |-> table_name \in GetAvailableTables(conn, tbls).names]

\* DatabaseManager.table_exists: `table_name in tables`, False when the
\* lookup raised
TableExistsResult(table_name, conn, tbls) ==
    LET listed == GetAvailableTables(conn, tbls)
    IN IF listed.outcome = "ok"
       THEN [outcome |-> "ok", result |-> table_name \in listed.names]
       ELSE [outcome |-> "ok", result |-> FALSE]

\* the name DuckDB gives a column of the right table in CREATE TABLE .. AS
\* SELECT *: a name the left table has already is given the suffix :1
JoinedColumn(a, c) ==
    IF \E k \in 1..Len(a.columns) : SameLower(a.columns[k], c) THEN c \o ":1" ELSE c

NullRow(ds) == [c \in {ds.columns[k] : k \in 1..Len(ds.columns)} |-> Null]

\* one row of the join: the cells of a row of a, then those of a row of b
JoinedRow(a, b, ra, rb) ==
    LET left == {a.columns[k] : k \in 1..Len(a.columns)}
        right == {b.columns[k] : k \in 1..Len(b.columns)}
    IN [c \in left \cup {JoinedColumn(a, r) : r \in right} |->
           IF c \in left THEN ra[c]
           ELSE rb[CHOOSE r \in right : JoinedColumn(a, r) = c]]

\* the ON condition: equal and not NULL
JoinMatch(ra, ka, rb, kb) == ra[ka].t # "null" /\ ra[ka] = rb[kb]

\* a JOIN b ON a.ka = b.kb keeping the matched pairs only
InnerJoinOnly(a, b, ka, kb) ==
    LET Matches(i) ==
            LET Hit(rb) == JoinMatch(a.rows[i], ka, rb, kb)
            IN SelectSeq(b.rows, Hit)
        F[i \in 0..Len(a.rows)] ==
            IF i = 0 THEN <<>>
            ELSE F[i - 1] \o [k \in 1..Len(Matches(i)) |->
                                 JoinedRow(a, b, a.rows[i], Matches(i)[k])]
    IN Dataset(a.columns \o [k \in 1..Len(b.columns) |-> JoinedColumn(a, b.columns[k])],
               F[Len(a.rows)])

\* a FULL OUTER JOIN b ON a.ka = b.kb: the matched pairs, the rows of a
\* without a match and the rows of b without a match, padded with NULL.
\* (SQL fixes no order of the rows; they are listed left rows first.)
FullOuterJoin(a, b, ka, kb) ==
    LET Matches(i) ==
            LET Hit(rb) == JoinMatch(a.rows[i], ka, rb, kb)
            IN SelectSeq(b.rows, Hit)
        LeftRows(i) ==
            IF Len(Matches(i)) = 0
            THEN <<JoinedRow(a, b, a.rows[i], NullRow(b))>>
            ELSE [k \in 1..Len(Matches(i)) |-> JoinedRow(a, b, a.rows[i], Matches(i)[k])]
        F[i \in 0..Len(a.rows)] == IF i = 0 THEN <<>> ELSE F[i - 1] \o LeftRows(i)
        Unmatched(rb) == \A i \in 1..Len(a.rows) : ~JoinMatch(a.rows[i], ka, rb, kb)
        right == SelectSeq(b.rows, Unmatched)
    IN Dataset(a.columns \o [k \in 1..Len(b.columns) |-> JoinedColumn(a, b.columns[k])],
               F[Len(a.rows)] \o [k \in 1..Len(right) |-> JoinedRow(a, b, NullRow(a), right[k])])

MergeFailed(cause, tbls) ==
    [outcome |-> "RuntimeError", cause |-> "Failed to merge tables: " \o cause,
     tables |-> tbls]

\* DatabaseManager.merge_tables: one statement, CREATE TABLE <output_table> AS
\* SELECT * FROM <table1> FULL OUTER JOIN <table2> ON <table1>.<on_column> =
\* <table2>.<on_column>; it creates the table or changes nothing
MergeTablesResult(table1, table2, on_column, output_table, conn, tbls, vws) ==
    IF ~conn THEN MergeFailed("no connection", tbls)
    ELSE IF \E text \in {table1, table2, on_column, output_table} : ~ParsesAsTableName(text)
    THEN MergeFailed("Parser Error", tbls)
    ELSE IF RelationExists(TableNamed(output_table), tbls, vws)
    THEN MergeFailed("Catalog Error: table already exists", tbls)
    ELSE IF \/ ~RelationExists(TableNamed(table1), tbls, vws)
            \/ ~RelationExists(TableNamed(table2), tbls, vws)
    THEN MergeFailed("Catalog Error: table does not exist", tbls)
    ELSE IF SameLower(TableNamed(table1), TableNamed(table2))
    THEN MergeFailed("Binder Error: duplicate alias", tbls)
    ELSE LET a == Relation(TableNamed(table1), tbls, vws)
             b == Relation(TableNamed(table2), tbls, vws)
             ka == ColumnOf(a, TableNamed(on_column))
             kb == ColumnOf(b, TableNamed(on_column))
         IN IF ka = "" \/ kb = ""
            THEN MergeFailed("Binder Error: column not found", tbls)
            ELSE IF ColumnType(a, ka) # ColumnType(b, kb)
            THEN MergeFailed("Conversion Error", tbls)
            ELSE [outcome |-> "ok", cause |-> "",
                  tables |-> Put(tbls, TableNamed(output_table),
                                 FullOuterJoin(a, b, ka, kb))]

(***************************************************************************)
(* The datasets, names and filters the store and the KPIs are run on.      *)
(***************************************************************************)
HabitsColumns ==
    <<"age", "gender", "parental_education_level", "study_hours_per_day",
      "attendance_percentage", "sleep_hours", "exam_score">>

HabitsRow(age, gender, edu, study, att, sleep, exam) ==
    [age |-> age, gender |-> gender, parental_education_level |-> edu,
     study_hours_per_day |-> study, attendance_percentage |-> att,
     sleep_hours |-> sleep, exam_score |-> exam]

HabitsA ==
    Dataset(HabitsColumns,
        <<HabitsRow(I(20), S("Male"), S("Bachelor"), I(5), I(85), I(7), I(70)),
          HabitsRow(I(21), S("Female"), S("Master"), I(6), I(90), I(8), I(80)),
          HabitsRow(I(19), S("Male"), S("Bachelor"), Null, I(74), I(6), I(90))>>)

HabitsB ==
    Dataset(HabitsColumns,
        <<HabitsRow(I(23), S("Female"), S("Master"), I(4), I(95), I(8), I(88)),
          HabitsRow(I(22), S("Male"), S("Bachelor"), I(7), Null, Null, I(60)),
          HabitsRow(I(24), S("Female"), S("Master"), I(2), I(55), I(5), Null),
          HabitsRow(I(21), S("Male"), S("Bachelor"), I(4), I(64), I(6), I(70))>>)

FactorsColumns ==
    <<"Hours_Studied", "Attendance", "Parental_Education_Level", "Sleep_Hours",
      "Gender", "Exam_Score">>

FactorsRow(study, att, edu, sleep, gender, exam) ==
    [Hours_Studied |-> study, Attendance |-> att, Parental_Education_Level |-> edu,
     Sleep_Hours |-> sleep, Gender |-> gender, Exam_Score |-> exam]

FactorsA ==
    Dataset(FactorsColumns,
        <<FactorsRow(I(23), I(84), S("High School"), I(7), S("Male"), I(67)),
          FactorsRow(I(19), I(64), S("College"), I(8), S("Female"), I(61))>>)

EmptyDf == Dataset(<<>>, <<>>)

ComplexDf == Dataset(<<"z">>, <<[z |-> Complex]>>)

Datasets == {HabitsA, HabitsB, FactorsA, EmptyDf, ComplexDf}

TableNames == {PrimaryTable, SecondaryTable, "_", "1a"}

\* if_exists: the callers (app.py) pass none, so the default "replace"
IfExistsModes == {"replace"}

QueryPool == {SelectAll(name) : name \in TableNames} \cup {BlankQuery(""), BlankQuery("  ")}

KpiFilterPool ==
    {<<>>,
     <<Entry("gender", S("Male")), Entry("age", T(<<I(17), I(24)>>))>>,
     <<Entry("gender", S("Male")), Entry("age", T(<<I(22), I(24)>>))>>,
     <<Entry("gender", S("Other"))>>}

(***************************************************************************)
(* Inputs of the predicate builders.                                       *)
(***************************************************************************)
FilterKeys == {"age", "AGE", "gender", "Gender"}

FilterValues ==
    {PyNone, S("O'Neil"), I(21), B(TRUE), L(<<S("Male"), I(2)>>),
     T(<<I(17), I(24)>>)}

Entries == {Entry(k, v) : k \in FilterKeys, v \in FilterValues}

\* dicts of exactly n entries: the keys are pairwise different
FilterSpecsOfLen(n) ==
    {f \in [1..n -> Entries] :
        \A i, j \in 1..n : i # j => f[i].key # f[j].key}

FilterSpecs == UNION {FilterSpecsOfLen(n) : n \in 0..MaxFilterEntries}

BaseQueries ==
    {"SELECT * FROM students",
     "SELECT * FROM students WHERE age > 25",
     "select * from students where age > 25",
     "SELECT * FROM nowhere"}

ColumnLists ==
    {NoColumns, Columns(<<>>), Columns(<<"age", "gender">>),
     Columns(<<"Gender", "Parental_Education_Level", "Exam_Score">>)}

NoArgs == [base |-> "", fs |-> <<>>, cols |-> NoColumns]
NoRet == [op |-> "none", query |-> ""]


(***************************************************************************)
(* st.session_state (app.py): the loaded flag, the FilterSpec, and the     *)
(* values Streamlit keeps for the widgets of the page.                     *)
(***************************************************************************)
\* what a file uploader holds: nothing, or an uploaded file
NoFile == [kind |-> "none"]

\* the (min, max) the age slider starts with
DefaultAge == T(<<I(17), I(24)>>)

\* the session before the first interaction
NewSession ==
    [data_loaded |-> FALSE, filters |-> <<>>,
     habits_upload |-> NoFile, factors_upload |-> NoFile,
     gender |-> "All", age |-> DefaultAge, education |-> "All",
     rerun |-> FALSE]

(***************************************************************************)
(* The predicate builders as a state machine: Init draws the inputs, the   *)
(* actions apply the builders.                                             *)
(***************************************************************************)
StoreInit ==
    /\ connection = TRUE
    /\ tables = EmptyMap
    /\ views = EmptyMap
    /\ last = [op |-> "none"]

InitFilter ==
    /\ StoreInit
    /\ session = NewSession
    /\ args \in [base : BaseQueries, fs : FilterSpecs, cols : ColumnLists]
    /\ ret = NoRet

\* FilterEngine.apply_filters(args.base, args.fs)
CallApplyFilters ==
    /\ ret' = [op |-> "apply_filters", query |-> ApplyFilters(args.base, args.fs)]
    /\ UNCHANGED <<connection, tables, views, last, args, session>>

\* KPICalculator(db, args.fs)._apply_filters_to_query(args.base, args.cols)
CallApplyFiltersToQuery ==
    /\ ret' = [op |-> "_apply_filters_to_query",
               query |-> ApplyFiltersToQuery(args.base, args.fs, args.cols)]
    /\ UNCHANGED <<connection, tables, views, last, args, session>>

NextFilter == CallApplyFilters \/ CallApplyFiltersToQuery

SpecFilter == InitFilter /\ [][NextFilter]_vars


(***************************************************************************)
(* FilterEngine.validate_filters and build_filter_query as a state         *)
(* machine: Init draws the FilterSpec, the actions apply the operations.   *)
(* The bounds of a range are integers.                                     *)
(***************************************************************************)
EngineKeys == {"age", "attendance", "gender"}

EngineValues ==
    {PyNone, S("Male"), I(21), B(TRUE), L(<<>>), L(<<S("Male"), I(2)>>),
     T(<<I(5)>>), T(<<I(5), I(10)>>), T(<<I(10), I(5)>>), T(<<I(5), I(5)>>),
     T(<<I(1), I(2), I(3)>>)}

EngineEntries == {Entry(k, v) : k \in EngineKeys, v \in EngineValues}

EngineSpecsOfLen(n) ==
    {f \in [1..n -> EngineEntries] :
        \A i, j \in 1..n : i # j => f[i].key # f[j].key}

EngineSpecs == UNION {EngineSpecsOfLen(n) : n \in 0..MaxFilterEntries}

InitEngine ==
    /\ StoreInit
    /\ session = NewSession
    /\ args \in [base : {""}, fs : EngineSpecs, cols : {NoColumns}]
    /\ ret = NoRet

\* FilterEngine.validate_filters(args.fs)
CallValidateFilters ==
    /\ ret' = [op |-> "validate_filters",
               valid |-> ValidateFilters(args.fs).valid,
               errors |-> ValidateFilters(args.fs).errors]
    /\ UNCHANGED <<connection, tables, views, last, args, session>>

\* FilterEngine.build_filter_query(args.fs)
CallBuildFilterQuery ==
    /\ ret' = [op |-> "build_filter_query", query |-> BuildFilterQuery(args.fs)]
    /\ UNCHANGED <<connection, tables, views, last, args, session>>

NextEngine == CallValidateFilters \/ CallBuildFilterQuery

SpecEngine == InitEngine /\ [][NextEngine]_vars

(***************************************************************************)
(* The store and the KPI calculator as a state machine.                    *)
(***************************************************************************)
Init ==
    /\ StoreInit
    /\ session = NewSession
    /\ args = NoArgs
    /\ ret = NoRet

\* what execute_query remembers of the call before it: a successful import
NoImport == [table_name |-> "", nrows |-> 0]

AfterImport ==
    IF last.op = "import_data" /\ last.outcome = "ok"
    THEN [table_name |-> last.table_name, nrows |-> Len(last.df.rows)]
    ELSE NoImport

\* db_manager.import_data(df, table_name, if_exists)
ImportData(df, table_name, if_exists) ==
    LET r == ImportDataResult(df, table_name, if_exists, connection, tables, views)
    IN /\ tables' = r.tables
       /\ views' = r.views
       /\ last' = [op |-> "import_data", df |-> df, table_name |-> table_name,
                   if_exists |-> if_exists,
                   existed |-> table_name \in DOMAIN tables,
                   outcome |-> r.outcome, message |-> r.cause]
       /\ UNCHANGED <<connection, args, ret, session>>

\* db_manager.execute_query(q.text)
ExecuteQuery(q) ==
    LET r == ExecuteQueryResult(q, connection, tables, views)
    IN /\ last' = [op |-> "execute_query", query |-> q.text, from |-> q.from,
                   outcome |-> r.outcome, message |-> r.message, rows |-> r.rows,
                   after_import |-> AfterImport]
       /\ tables' = r.tables
       /\ UNCHANGED <<connection, views, args, ret, session>>

\* db_manager.delete_table(table_name)
DeleteTable(table_name) ==
    LET r == DropTableIfExists(table_name, connection, tables, views)
    IN /\ tables' = r.tables
       /\ last' = [op |-> "delete_table", table_name |-> table_name,
                   outcome |-> IF r.ok THEN "ok" ELSE "RuntimeError",
                   message |-> r.cause]
       /\ UNCHANGED <<connection, views, args, ret, session>>

\* KPICalculator(db_manager, fs).calculate_kpi_<n>()
CalculateKpi(n, fs) ==
    /\ last' \in KpiOutcomes(n, fs, connection, tables, views)
    /\ UNCHANGED <<connection, tables, views, args, ret, session>>

Next ==
    \/ \E df \in Datasets, table_name \in TableNames, if_exists \in IfExistsModes :
          ImportData(df, table_name, if_exists)
    \/ \E q \in QueryPool : ExecuteQuery(q)
    \/ \E table_name \in TableNames : DeleteTable(table_name)
    \/ \E n \in 1..4, fs \in KpiFilterPool : CalculateKpi(n, fs)

Spec == Init /\ [][Next]_vars


(***************************************************************************)
(* The whole of DatabaseManager as a state machine: import_data,           *)
(* execute_query, delete_table, table_exists, merge_tables and close, on   *)
(* two-column datasets.                                                    *)
(***************************************************************************)
LeftDf ==
    Dataset(<<"id", "x">>,
        <<[id |-> I(1), x |-> S("a")], [id |-> I(2), x |-> S("b")]>>)

RightDf ==
    Dataset(<<"id", "y">>,
        <<[id |-> I(2), y |-> I(10)], [id |-> I(3), y |-> I(30)]>>)

\* columns and no rows
NoRowsDf == Dataset(<<"id">>, <<>>)

StoreDatasets == {LeftDf, RightDf, NoRowsDf}

StoreNames == {"t1", "t2", "1a", "a-b", "a!"}

StoreQueryPool ==
    {SelectAll("t1"), SelectAll("1a"), SelectAll("merged"),
     SelectColumn("id", "t1"), SelectColumn("nope", "t1"),
     DropThenSelectAll("t1", "missing"),
     BlankQuery(""), BlankQuery(" \n")}

MergeArguments ==
    [table1 : {"t1"}, table2 : {"t1", "t2"}, on_column : {"id", "y"},
     output_table : {"merged", "\"a-b\""}]

\* db_manager.table_exists(table_name)
TableExists(table_name) ==
    LET r == TableExistsResult(table_name, connection, tables)
    IN /\ last' = [op |-> "table_exists", table_name |-> table_name,
                   outcome |-> r.outcome, result |-> r.result]
       /\ UNCHANGED <<connection, tables, views, args, ret, session>>

\* db_manager.merge_tables(table1, table2, on_column, output_table)
MergeTables(m) ==
    LET r == MergeTablesResult(m.table1, m.table2, m.on_column, m.output_table,
                               connection, tables, views)
    IN /\ tables' = r.tables
       /\ last' = [op |-> "merge_tables", table1 |-> m.table1, table2 |-> m.table2,
                   on_column |-> m.on_column, output_table |-> m.output_table,
                   outcome |-> r.outcome, message |-> r.cause]
       /\ UNCHANGED <<connection, views, args, ret, session>>

\* db_manager.close(): the connection is closed and dropped; the database
\* (":memory:") goes with it
Close ==
    /\ IF connection
       THEN connection' = FALSE /\ tables' = EmptyMap /\ views' = EmptyMap
       ELSE UNCHANGED <<connection, tables, views>>
    /\ last' = [op |-> "close"]
    /\ UNCHANGED <<args, ret, session>>

NextStore ==
    \/ \E df \in StoreDatasets, table_name \in StoreNames, if_exists \in IfExistsModes :
          ImportData(df, table_name, if_exists)
    \/ \E q \in StoreQueryPool : ExecuteQuery(q)
    \/ \E table_name \in StoreNames : DeleteTable(table_name)
    \/ \E table_name \in StoreNames : TableExists(table_name)
    \/ \E m \in MergeArguments : MergeTables(m)
    \/ Close

SpecStore == Init /\ [][NextStore]_vars

(***************************************************************************)
(* import_data under each if_exists mode, as a state machine.              *)
(***************************************************************************)
\* if_exists as the docstring of import_data lists it
ImportModes == {"replace", "append", "fail"}

ImportNames == {"t1", "t2"}

ImportDatasets == {LeftDf, RightDf}

NextImport ==
    \/ \E df \in ImportDatasets, table_name \in ImportNames, if_exists \in ImportModes :
          ImportData(df, table_name, if_exists)
    \/ \E table_name \in ImportNames : ExecuteQuery(SelectAll(table_name))
    \/ \E table_name \in ImportNames : DeleteTable(table_name)

SpecImport == Init /\ [][NextImport]_vars

(***************************************************************************)
(* calculate_correlation_coefficient as a state machine: Init draws the    *)
(* two series, the action applies the function.                            *)
(***************************************************************************)
\* the longest series drawn
MaxSeriesLen == 3

SeriesValues == 1..3

Series == UNION {[1..n -> SeriesValues] : n \in 0..MaxSeriesLen}

\* a float: cov / sqrt(vx * vy)
Float(cov, vx, vy) == [cov |-> cov, vx |-> vx, vy |-> vy]

\* the literal 0.0
Zero == Float(0, 1, 1)

SumOfProducts(x, y) ==
    LET F[k \in 0..Len(x)] == IF k = 0 THEN 0 ELSE F[k - 1] + x[k] * y[k]
    IN F[Len(x)]

SumOf(x) == SumOfProducts(x, [k \in 1..Len(x) |-> 1])

\* float(np.corrcoef(x, y)[0, 1]): series of different lengths cannot be
\* stacked (ValueError); a series without variance gives nan
Corrcoef(x, y) ==
    IF Len(x) # Len(y)
    THEN [outcome |-> "ValueError", value |-> Zero]
    ELSE LET n == Len(x)
             cov == n * SumOfProducts(x, y) - SumOf(x) * SumOf(y)
             vx == n * SumOfProducts(x, x) - SumOf(x) * SumOf(x)
             vy == n * SumOfProducts(y, y) - SumOf(y) * SumOf(y)
         IN IF vx = 0 \/ vy = 0
            THEN [outcome |-> "ok", value |-> [nan |-> TRUE]]
            ELSE [outcome |-> "ok", value |-> Float(cov, vx, vy)]

\* CorrelationCoefficient with `and` in place of `or` in the length test
CorrelationCoefficientBothShort(x, y) ==
    IF Len(x) < 2 /\ Len(y) < 2 THEN [outcome |-> "ok", value |-> Zero]
    ELSE Corrcoef(x, y)

\* KPICalculator.calculate_correlation_coefficient(x, y)
CorrelationCoefficient(x, y) ==
    IF Len(x) < 2 \/ Len(y) < 2 THEN [outcome |-> "ok", value |-> Zero]
    ELSE Corrcoef(x, y)

InitCorrelation ==
    /\ StoreInit
    /\ session = NewSession
    /\ args \in [x : Series, y : Series]
    /\ ret = NoRet

\* kpi_calc.calculate_correlation_coefficient(args.x, args.y)
CallCorrelationCoefficient ==
    LET r == CorrelationCoefficient(args.x, args.y)
    IN /\ ret' = [op |-> "calculate_correlation_coefficient",
                  outcome |-> r.outcome, value |-> r.value]
       /\ UNCHANGED <<connection, tables, views, last, args, session>>

NextCorrelation == CallCorrelationCoefficient

SpecCorrelation == InitCorrelation /\ [][NextCorrelation]_vars

(***************************************************************************)
(* The page (app.py): a script run per interaction.  A run renders the     *)
(* upload section, the filter section and the KPI section in this order.   *)
(***************************************************************************)
\* an uploaded file whose bytes are UTF-8 text that pd.read_csv parses to df
CsvFile(df) == [kind |-> "csv", df |-> df]

\* an uploaded file whose bytes are not UTF-8
UndecodableFile == [kind |-> "bytes"]

\* a file object whose bytes an earlier run has read: read() gives b""
ConsumedFile == [kind |-> "consumed"]

\* file.read() in a run: the bytes of a file uploaded by this interaction;
\* for a file an earlier run has read, the bytes again or none, as the
\* uploader hands out a new file object or the one already read
Reads(file, fresh) ==
    IF file.kind = "none" \/ fresh THEN {file} ELSE {file, ConsumedFile}

\* df.drop_duplicates(keep="first")
HandleDuplicates(df) ==
    LET F[k \in 0..Len(df.rows)] ==
            IF k = 0 THEN <<>>
            ELSE IF \E j \in 1..(k - 1) : df.rows[j] = df.rows[k] THEN F[k - 1]
            ELSE Append(F[k - 1], df.rows[k])
    IN Dataset(df.columns, F[Len(df.rows)])

\* the `if <x>_file:` block of render_upload_section for one uploader, from
\* the state up the blocks before it left
ProcessFile(file, label, table_name, conn, up) ==
    IF up.raised \/ file.kind = "none" THEN up
    ELSE IF file.kind = "bytes"
    THEN [up EXCEPT !.raised = TRUE,
                    !.messages = Append(@, "Error processing files: 'utf-8' codec can't decode")]
    ELSE IF file.kind = "consumed"
    THEN [up EXCEPT !.raised = TRUE,
                    !.messages = Append(@, "Error processing files: Failed to parse CSV file")]
    ELSE IF Len(file.df.rows) = 0
    THEN [up EXCEPT !.messages = Append(@, label \o " file error: CSV file is empty")]
    ELSE LET r == ImportDataResult(HandleDuplicates(file.df), table_name, "replace",
                                   conn, up.tables, up.views)
         IN IF r.outcome = "ok"
            THEN [up EXCEPT !.tables = r.tables, !.views = r.views,
                            !.imported = @ \cup {table_name}]
            ELSE [up EXCEPT !.tables = r.tables, !.views = r.views, !.raised = TRUE,
                            !.messages = Append(@, "Error processing files: " \o r.cause)]

\* render_upload_section: what it leaves of the flag and the store, the
\* tables it imported and the errors it displayed
RenderUploadSection(data_loaded, habits, factors, conn, tbls, vws) ==
    LET start == [tables |-> tbls, views |-> vws, imported |-> {},
                  messages |-> <<>>, raised |-> FALSE]
        up == ProcessFile(factors, "Factors", SecondaryTable, conn,
                  ProcessFile(habits, "Habits", PrimaryTable, conn, start))
    IN [data_loaded |->
            IF habits.kind = "none" /\ factors.kind = "none" THEN data_loaded
            ELSE IF up.raised THEN data_loaded
            ELSE TRUE,
        tables |-> up.tables, views |-> up.views,
        imported |-> up.imported, messages |-> up.messages]

\* filters[key] = value on a dict: a key it has keeps its place
DictSet(fs, key, value) ==
    IF \E i \in 1..Len(fs) : fs[i].key = key
    THEN [i \in 1..Len(fs) |-> IF fs[i].key = key THEN Entry(key, value) ELSE fs[i]]
    ELSE Append(fs, Entry(key, value))

\* del filters[key] when key is in the dict
DictDel(fs, key) == SelectSeq(fs, LAMBDA e : e.key # key)

\* the options of the gender selectbox besides "All": the distinct values of
\* the column gender of the primary table; none when the table is not
\* listed or get_filter_options raises (`except: pass`)
GenderOptions(conn, tbls, vws) ==
    IF ~TableExistsResult(PrimaryTable, conn, tbls).result THEN {"All"}
    ELSE LET ds == Relation(PrimaryTable, tbls, vws)
         IN IF ColumnOf(ds, "gender") # "gender" THEN {"All"}
            ELSE {"All"} \cup {ds.rows[r].gender.s : r \in
                                  {q \in 1..Len(ds.rows) : ds.rows[q].gender.t = "str"}}

\* a selectbox: the value the session holds for it when it is among the
\* options, else the first option
Selected(value, options) == IF value \in options THEN value ELSE "All"

EducationOptions == {"All", "High School", "Bachelor", "Master", "Postgraduate", "None"}

\* the three columns of render_filter_section: the FilterSpec they leave
FilterWidgets(filters, gender, age, education) ==
    LET g == IF gender # "All" THEN DictSet(filters, "gender", S(gender))
             ELSE DictDel(filters, "gender")
        a == DictSet(g, "age", age)
    IN IF education # "All" THEN DictSet(a, "parental_education_level", S(education))
       ELSE DictDel(a, "parental_education_level")

\* render_filter_section: the FilterSpec it leaves and whether it ended the
\* run with st.rerun()
RenderFilterSection(sess, data_loaded, clear, conn, tbls, vws) ==
    IF ~data_loaded THEN [filters |-> sess.filters, rerun |-> FALSE]
    ELSE LET fs == FilterWidgets(sess.filters,
                       Selected(sess.gender, GenderOptions(conn, tbls, vws)),
                       sess.age, Selected(sess.education, EducationOptions))
         IN IF clear THEN [filters |-> <<>>, rerun |-> TRUE]
            ELSE [filters |-> fs, rerun |-> FALSE]

\* what one KPI column displays for the outcome of its calculate_kpi_<n>
Section(n, out) ==
    IF out.outcome # "ok"
    THEN [attempted |-> TRUE, shown |-> "error", data |-> <<>>,
          message |-> "Error calculating KPI " \o ToString(n) \o ": " \o out.message]
    ELSE IF out.result = <<>>
    THEN [attempted |-> TRUE, shown |-> "info", data |-> <<>>,
          message |-> "No data available for this KPI"]
    ELSE [attempted |-> TRUE, shown |-> "chart", data |-> out.result, message |-> ""]

NotAttempted == [attempted |-> FALSE, shown |-> "nothing", data |-> <<>>, message |-> ""]

\* ReachesSection with one try around the four columns: the first failure
\* ends the section
ReachesSectionUntilFailure(n, outs) == \A m \in 1..(n - 1) : outs[m].outcome = "ok"

\* whether render_kpi_section gets to the column of KPI n, given the outcomes
\* of the calculations: each column has its own try / except
ReachesSection(n, outs) == TRUE

\* the four columns of render_kpi_section, given the outcomes of the calls
KpiSections(outs) ==
    [n \in 1..4 |-> IF ReachesSection(n, outs) THEN Section(n, outs[n]) ELSE NotAttempted]

NoSections == [n \in 1..4 |-> NotAttempted]

\* one run of the script (main) on the session sess; fresh holds the
\* uploaders whose file this interaction uploaded, clear is whether the
\* Clear Filters button was pressed
Run(sess, fresh, clear) ==
    \E habits \in Reads(sess.habits_upload, "habits" \in fresh),
       factors \in Reads(sess.factors_upload, "factors" \in fresh) :
        \E up \in {RenderUploadSection(sess.data_loaded, habits, factors,
                                       connection, tables, views)} :
        \E flt \in {RenderFilterSection(sess, up.data_loaded, clear,
                                        connection, up.tables, up.views)} :
           /\ tables' = up.tables
           /\ views' = up.views
           /\ session' = [sess EXCEPT !.data_loaded = up.data_loaded,
                                      !.filters = flt.filters,
                                      !.rerun = flt.rerun]
           /\ IF up.data_loaded /\ ~flt.rerun
              THEN \E calls \in {[n \in 1..4 |->
                                     KpiOutcomes(n, flt.filters, connection,
                                                 up.tables, up.views)]} :
                   \E o1 \in calls[1], o2 \in calls[2],
                      o3 \in calls[3], o4 \in calls[4] :
                        last' = [op |-> "run", imported |-> up.imported,
                                 messages |-> up.messages,
                                 kpi |-> TRUE, fs |-> flt.filters,
                                 sections |-> KpiSections(<<o1, o2, o3, o4>>)]
              ELSE last' = [op |-> "run", imported |-> up.imported,
                            messages |-> up.messages,
                            kpi |-> FALSE, fs |-> <<>>, sections |-> NoSections]
           /\ UNCHANGED <<connection, args, ret>>

\* the files, the genders and the ranges the user chooses among:
\* FactorsA with its first row twice
FactorsTwice == Dataset(FactorsColumns, <<FactorsA.rows[1]>> \o FactorsA.rows)

\* a header line and no data line
HeaderOnly == Dataset(HabitsColumns, <<>>)

HabitsFiles == {CsvFile(HabitsA), CsvFile(HeaderOnly), UndecodableFile}

FactorsFiles == {CsvFile(FactorsTwice), UndecodableFile}

Genders == {"All", "Male"}

AgeRanges == {DefaultAge, T(<<I(17), I(19)>>)}

EducationPool == {"All", "Bachelor"}

\* the widgets of the page; "rerun" stands for the run st.rerun() asked for
Widgets == {"habits_upload", "factors_upload", "gender", "age", "education",
            "clear", "rerun"}

\* what the user can do with a widget in the current state: a file put into
\* an uploader, an option picked among those on the page, the slider moved,
\* the Clear Filters button pressed. The filter widgets are on the page only
\* when data is loaded, and a pending st.rerun() runs before anything else
Choices(widget) ==
    IF widget = "rerun" THEN (IF session.rerun THEN {TRUE} ELSE {})
    ELSE IF session.rerun THEN {}
    ELSE IF widget = "habits_upload" THEN HabitsFiles \ {session.habits_upload}
    ELSE IF widget = "factors_upload" THEN FactorsFiles \ {session.factors_upload}
    ELSE IF ~session.data_loaded THEN {}
    ELSE IF widget = "gender"
    THEN (Genders \cap GenderOptions(connection, tables, views)) \ {session.gender}
    ELSE IF widget = "age" THEN AgeRanges \ {session.age}
    ELSE IF widget = "education" THEN EducationPool \ {session.education}
    ELSE {TRUE}

\* the session as the interaction leaves it for the run it triggers
Interact(sess, widget, value) ==
    IF widget = "habits_upload" THEN [sess EXCEPT !.habits_upload = value]
    ELSE IF widget = "factors_upload" THEN [sess EXCEPT !.factors_upload = value]
    ELSE IF widget = "gender" THEN [sess EXCEPT !.gender = value]
    ELSE IF widget = "age" THEN [sess EXCEPT !.age = value]
    ELSE IF widget = "education" THEN [sess EXCEPT !.education = value]
    ELSE sess

\* every interaction reruns the script from the top
ScriptRun(widget, value) ==
    Run(Interact(session, widget, value),
        IF widget = "habits_upload" THEN {"habits"}
        ELSE IF widget = "factors_upload" THEN {"factors"} ELSE {},
        widget = "clear")

NextSession ==
    \E widget \in Widgets : \E value \in Choices(widget) : ScriptRun(widget, value)

SpecSession == Init /\ [][NextSession]_vars

(***************************************************************************)
(* Claims about the predicate builders (checked under SpecFilter).         *)
(***************************************************************************)
IsInject == ret.op = "_apply_filters_to_query"

\* the indices of the columns of cols that equal key up to letter case
CaseHits(key, cols) == {j \in 1..Len(cols) : Lower(cols[j]) = Lower(key)}

FirstHit(key, cols) ==
    cols[CHOOSE j \in CaseHits(key, cols) : \A k \in CaseHits(key, cols) : j <= k]

\* args.fs with every key that matches a known column replaced by that column
ExactCased(fs, cols) ==
    [i \in 1..Len(fs) |->
        IF CaseHits(fs[i].key, cols) = {} THEN fs[i]
        ELSE Entry(FirstHit(fs[i].key, cols), fs[i].value)]

DistinctKeys(fs) == \A i, j \in 1..Len(fs) : i # j => fs[i].key # fs[j].key

\* C7: with a non-empty knownColumns list, a FilterSpec whose keys differ from
\* the known columns only in letter case gives the same query as the FilterSpec
\* with the exactly-cased keys, whatever the shapes of the values.
C7_CaseInsensitiveAllShapes ==
    (IsInject /\ Truthy(args.cols) /\ DistinctKeys(ExactCased(args.fs, args.cols.cols)))
        => ret.query = ApplyFiltersToQuery(args.base,
                           ExactCased(args.fs, args.cols.cols), args.cols)

\* C8: the injector returns the base query unchanged when the FilterSpec is
\* empty, and when knownColumns is a non-empty list none of whose entries
\* matches any filter key case-insensitively.
C8_NoApplicableEntryUnchanged ==
    IsInject =>
        /\ Len(args.fs) = 0 => ret.query = args.base
        /\ ( /\ args.cols.given
             /\ Len(args.cols.cols) > 0
             /\ \A i \in 1..Len(args.fs) : CaseHits(args.fs[i].key, args.cols.cols) = {} )
           => ret.query = args.base

C8_Witness ==
    /\ IsInject
    /\ Len(args.fs) = 2
    /\ args.fs[1] = Entry("age", T(<<I(17), I(24)>>))
    /\ args.fs[2] = Entry("AGE", S("O'Neil"))
    /\ args.cols = Columns(<<"Gender", "Parental_Education_Level", "Exam_Score">>)
    /\ args.base = "SELECT * FROM students"
    /\ ret.query = "SELECT * FROM students"

\* the entries C9 speaks of: the key resolves (or no column list is given) and
\* the value is a two-element range on "age", a text or a number
Resolves9(e, cols) ==
    ~cols.given \/ CaseHits(e.key, cols.cols) # {}

Applicable9(e, cols) ==
    /\ Resolves9(e, cols)
    /\ \/ e.key = "age" /\ e.value.t = "tuple" /\ Len(e.value.items) = 2
       \/ e.value.t \in {"str", "int"}

Column9(e, cols) == IF cols.given THEN FirstHit(e.key, cols.cols) ELSE e.key

Quoted9(col) == "\"" \o col \o "\""

Shape9(e, cols) ==
    IF e.value.t = "tuple"
    THEN Quoted9(Column9(e, cols)) \o " BETWEEN " \o ToString(e.value.items[1].i)
           \o " AND " \o ToString(e.value.items[2].i)
    ELSE IF e.value.t = "str"
    THEN Quoted9(Column9(e, cols)) \o " = '" \o e.value.s \o "'"
    ELSE Quoted9(Column9(e, cols)) \o " = " \o ToString(e.value.i)

\* per entry, in iteration order: the predicate C9 fixes for an applicable
\* entry, and what the injector emits for any other entry
RECURSIVE Predicates9(_, _)
Predicates9(fs, cols) ==
    IF Len(fs) = 0 THEN <<>>
    ELSE (IF Applicable9(fs[1], cols) THEN <<Shape9(fs[1], cols)>>
          ELSE Texts(EntryConditions(fs[1], cols)))
           \o Predicates9(Tail(fs), cols)

\* C9: every applicable entry contributes exactly one predicate of the shape its
\* value fixes ("<col>" BETWEEN lo AND hi, "<col>" = '<text>' unescaped,
\* "<col>" = <number>), and the predicates follow the base query joined with
\* AND in the iteration order of the FilterSpec.
C9_OnePredicatePerEntryInOrder ==
    (IsInject /\ Predicates9(args.fs, args.cols) # <<>>) =>
        \E sep \in {" WHERE ", " AND "} :
            ret.query = args.base \o sep \o Join(" AND ", Predicates9(args.fs, args.cols))

C9_Witness ==
    /\ IsInject
    /\ args.fs = <<Entry("Gender", S("O'Neil")), Entry("age", T(<<I(17), I(24)>>))>>
    /\ Applicable9(args.fs[1], args.cols)
    /\ Applicable9(args.fs[2], args.cols)
    /\ ret.query = "SELECT * FROM students WHERE \"gender\" = 'O'Neil' AND "
                     \o "\"age\" BETWEEN 17 AND 24"

\* a WHERE keyword of the query text: the letters w-h-e-r-e in any case, not
\* inside a longer word
WordChar(c) ==
    c \in DOMAIN UpperMap \/ c \in DOMAIN LowerMap \/ c = "_"
      \/ \E d \in 1..Len(Digits) : CharAt(Digits, d) = c

HasWhereClause(q) ==
    \E i \in 1..(Len(q) - 4) :
        /\ Lower(SubSeq(q, i, i + 4)) = "where"
        /\ i = 1 \/ ~WordChar(CharAt(q, i - 1))
        /\ i + 4 = Len(q) \/ ~WordChar(CharAt(q, i + 5))

\* the predicates the last call emitted, joined
EmittedClause ==
    IF IsInject THEN Join(" AND ", Texts(KpiConditions(args.fs, args.cols)))
    ELSE BuildFilterQuery(args.fs)

\* C10: when at least one predicate is emitted, the result is base WHERE
\* predicates exactly when the base query has no WHERE clause, and base AND
\* predicates exactly when it has one (upper or lower case).
C10_WhereOrAnd ==
    (ret.op # "none" /\ EmittedClause # "") =>
        /\ ~HasWhereClause(args.base)
             <=> ret.query = args.base \o " WHERE " \o EmittedClause
        /\ HasWhereClause(args.base)
             <=> ret.query = args.base \o " AND " \o EmittedClause


(***************************************************************************)
(* Claims about the store and the KPI operations (checked under Spec).     *)
(***************************************************************************)
NameChar(c) == IsLetter(c) \/ IsDigit(c) \/ c = "_"

\* the name matches [A-Za-z0-9_]+
MatchesNamePattern(name) ==
    Len(name) > 0 /\ \A i \in 1..Len(name) : NameChar(CharAt(name, i))

IsImport == last.op = "import_data"

IsKpi == last.op = "kpi"

\* C1: import_data of a non-empty dataset under a name matching [A-Za-z0-9_]+
\* succeeds, and execute_query("SELECT * FROM N") right after a successful
\* import of D under N returns as many rows as D has.
C1_ImportThenSelectCount ==
    /\ (IsImport /\ ~IsEmpty(last.df) /\ MatchesNamePattern(last.table_name))
          => last.outcome = "ok"
    /\ (last.op = "execute_query" /\ last.after_import.table_name # ""
            /\ last.from = last.after_import.table_name)
          => (last.outcome = "ok" /\ Len(last.rows) = last.after_import.nrows)

\* C2: an import_data(D, N) that raises RuntimeError while table N exists
\* leaves table N in place with the contents it had before the call.
C2_ReplacementAtomic ==
    [][(/\ last'.op = "import_data"
        /\ last'.outcome = "RuntimeError"
        /\ last'.table_name \in DOMAIN tables)
          => (/\ last'.table_name \in DOMAIN tables'
              /\ tables'[last'.table_name] = tables[last'.table_name])]_vars

\* the primary table is absent, the secondary table holds the rows of FactorsA
PrimaryAbsentSecondaryPopulated ==
    /\ ~RelationExists(PrimaryTable, tables, views)
    /\ SecondaryTable \in DOMAIN tables
    /\ SecondaryTable \notin DOMAIN views
    /\ tables[SecondaryTable] = FactorsA

\* C3: with the primary table absent and the secondary table populated, a KPI
\* operation (no filters set) returns a non-empty result computed from the
\* secondary table.
C3_FallbackWhenPrimaryAbsent ==
    (IsKpi /\ last.fs = <<>> /\ PrimaryAbsentSecondaryPopulated)
        => (/\ last.outcome = "ok"
            /\ last.result # <<>>
            /\ last.attempts[Len(last.attempts)].table = SecondaryTable)

\* C4: a KPI operation queries the primary table first, queries the secondary
\* table exactly when the primary query returned zero rows, and returns the
\* primary result, without a secondary query, when that has a row.
C4_SecondaryIffPrimaryEmpty ==
    IsKpi =>
        /\ Len(last.attempts) \in {1, 2}
        /\ last.attempts[1].table = PrimaryTable
        /\ (Len(last.attempts) = 2)
              <=> (last.attempts[1].ok /\ Len(last.attempts[1].rows) = 0)
        /\ Len(last.attempts) = 2 => last.attempts[2].table = SecondaryTable
        /\ (last.attempts[1].ok /\ Len(last.attempts[1].rows) > 0)
              => (/\ last.outcome = "ok"
                  /\ last.result = last.attempts[1].rows
                  /\ \A k \in 1..Len(last.attempts) :
                        last.attempts[k].table # SecondaryTable)

\* an empty primary result was followed by a secondary query whose rows are
\* the result
C4_Witness ==
    /\ IsKpi
    /\ Len(last.attempts) = 2
    /\ last.attempts[1].ok /\ last.attempts[1].rows = <<>>
    /\ last.attempts[2].ok /\ last.attempts[2].rows # <<>>
    /\ last.result = last.attempts[2].rows

\* the text after the first count characters of s
Suffix(s, count) == SubSeq(s, count + 1, Len(s))

\* text starts with prefix
StartsWith(text, prefix) ==
    Len(text) >= Len(prefix) /\ SubSeq(text, 1, Len(prefix)) = prefix

\* the message names KPI n and ends with the cause
CarriesNumberAndCause(message, n, cause) ==
    LET number == "KPI " \o ToString(n) \o ": "
    IN \E i \in 1..Len(message) :
          /\ StartsWith(Suffix(message, i - 1), number)
          /\ Suffix(message, i - 1 + Len(number)) = cause

\* C5: a failure of the primary attempt, or of the secondary attempt after an
\* empty primary result, ends the KPI call with a RuntimeError that carries
\* the KPI's number and the cause; a call makes at most two queries and none
\* after a failed one.
C5_FailureCarriesNumberAndCause ==
    IsKpi =>
        /\ Len(last.attempts) <= 2
        /\ \A k \in 1..Len(last.attempts) :
              ~last.attempts[k].ok =>
                  /\ k = Len(last.attempts)
                  /\ last.outcome = "RuntimeError"
                  /\ CarriesNumberAndCause(last.message, last.n, last.attempts[k].message)

\* the secondary attempt of a KPI other than KPI 1 failed after an empty
\* primary result
C5_Witness ==
    /\ IsKpi
    /\ last.n # 1
    /\ Len(last.attempts) = 2
    /\ last.attempts[1].ok
    /\ ~last.attempts[2].ok
    /\ last.outcome = "RuntimeError"

GenderPredicate(column, value) == "\"" \o column \o "\" = '" \o value \o "'"

AgePredicate(range) ==
    "\"age\" BETWEEN " \o ToString(range.items[1].i) \o " AND " \o ToString(range.items[2].i)

\* C6: the primary attempt emits the gender filter against "gender" and the
\* age range against "age"; the secondary attempt emits the gender filter
\* against "Gender" and nothing for age, which its column list lacks.
C6_ColumnListOfAttemptInFlight ==
    IsKpi =>
        \A e \in 1..Len(last.fs) :
            LET key == last.fs[e].key
                value == last.fs[e].value
                primary == last.attempts[1].text
            IN /\ key = "gender" =>
                    /\ Contains(primary, GenderPredicate("gender", value.s))
                    /\ ~Contains(primary, "\"Gender\"")
                    /\ Len(last.attempts) = 2 =>
                          /\ Contains(last.attempts[2].text, GenderPredicate("Gender", value.s))
                          /\ ~Contains(last.attempts[2].text, "\"gender\"")
               /\ key = "age" =>
                    /\ Contains(primary, AgePredicate(value))
                    /\ Len(last.attempts) = 2 =>
                          /\ ~Contains(last.attempts[2].text, "\"age\"")
                          /\ ~Contains(last.attempts[2].text, "BETWEEN")

\* a call with a gender and an age filter went on to the secondary attempt
C6_Witness ==
    /\ IsKpi
    /\ Len(last.attempts) = 2
    /\ \E e \in 1..Len(last.fs) : last.fs[e].key = "gender"
    /\ \E e \in 1..Len(last.fs) : last.fs[e].key = "age"
    /\ Contains(last.attempts[2].text, "\"Gender\" = 'Male'")


(***************************************************************************)
(* Claims about FilterEngine (checked under SpecEngine).                   *)
(***************************************************************************)
IsEmptyList(v) == v.t = "list" /\ Len(v.items) = 0

IsRange(v) == v.t = "tuple"

\* an empty list, a range without exactly two elements, a range with lo > hi
Malformed(v) ==
    \/ IsEmptyList(v)
    \/ IsRange(v) /\ Len(v.items) # 2
    \/ IsRange(v) /\ Len(v.items) = 2 /\ v.items[1].i > v.items[2].i

\* C11: validate_filters reports the FilterSpec invalid exactly when some
\* entry is an empty list, a range without exactly two elements or a range
\* with lo > hi (null and scalar entries, and ranges with lo <= hi, never
\* count), and the flag is true exactly when the error list is empty.
C11_InvalidIffMalformedEntry ==
    ret.op = "validate_filters" =>
        /\ ~ret.valid <=> \E i \in 1..Len(args.fs) : Malformed(args.fs[i].value)
        /\ ret.valid <=> Len(ret.errors) = 0

\* an inverted range next to a scalar entry was validated
C11_Witness ==
    /\ ret.op = "validate_filters"
    /\ ~ret.valid
    /\ \E i \in 1..Len(args.fs) : args.fs[i].value = T(<<I(10), I(5)>>)
    /\ \E i \in 1..Len(args.fs) : args.fs[i].value = I(21)

\* an element of an IN list: text in quotes, anything else as str() gives it
Item12(v) == IF v.t = "str" THEN "'" \o v.s \o "'" ELSE PyStr(v)

ItemList12(items) ==
    LET F[k \in 0..Len(items)] ==
            IF k = 0 THEN ""
            ELSE IF k = 1 THEN Item12(items[1])
            ELSE F[k - 1] \o ", " \o Item12(items[k])
    IN F[Len(items)]

\* whether the general builder emits a predicate for the entry
Emits12(e) ==
    \/ e.value.t = "list" /\ Len(e.value.items) > 0
    \/ e.value.t = "tuple" /\ Len(e.value.items) = 2
    \/ e.value.t \in {"str", "int", "bool"}

Predicate12(e) ==
    CASE e.value.t = "list" -> e.key \o " IN (" \o ItemList12(e.value.items) \o ")"
      [] e.value.t = "tuple" ->
           e.key \o " BETWEEN " \o ToString(e.value.items[1].i) \o " AND "
                 \o ToString(e.value.items[2].i)
      [] e.value.t = "str" -> e.key \o " = '" \o e.value.s \o "'"
      [] OTHER -> e.key \o " = " \o PyStr(e.value)

\* the predicates of the entries of fs that emit one, joined with AND
Joined12(fs) ==
    LET F[k \in 0..Len(fs)] ==
            IF k = 0 THEN ""
            ELSE IF ~Emits12(fs[k]) THEN F[k - 1]
            ELSE IF F[k - 1] = "" THEN Predicate12(fs[k])
            ELSE F[k - 1] \o " AND " \o Predicate12(fs[k])
    IN F[Len(fs)]

\* C12: build_filter_query validates nothing: it emits key IN (...) for a
\* non-empty list, key BETWEEN a AND b for a two-element range in the given
\* order even when a > b, key = 'v' for text, key = v for a number, nothing
\* for null or an empty list; it joins the predicates with AND and returns
\* the empty string when there is none.
C12_BuildsWithoutValidation ==
    ret.op = "build_filter_query" => ret.query = Joined12(args.fs)

\* an inverted range and an empty list were given to the builder
C12_Witness ==
    /\ ret.op = "build_filter_query"
    /\ Len(args.fs) = 2
    /\ args.fs[1].value = T(<<I(10), I(5)>>)
    /\ args.fs[2].value = L(<<>>)
    /\ ret.query = args.fs[1].key \o " BETWEEN 10 AND 5"


(***************************************************************************)
(* Claims about DatabaseManager (checked under SpecStore).                 *)
(***************************************************************************)
HasChar(text, c) == \E i \in 1..Len(text) : CharAt(text, i) = c

\* C13: an import_data of a dataset with zero rows ends with ValueError
\* (empty input), one under a table name containing '-' or '!' ends with
\* ValueError (invalid identifier), and both leave the tables of the store
\* and their contents as they were.
C13_BadInputRejectedUntouched ==
    [][last'.op = "import_data" =>
          /\ Len(last'.df.rows) = 0 =>
                /\ last'.outcome = "ValueError"
                /\ last'.message = "Cannot import empty DataFrame"
                /\ tables' = tables /\ views' = views
          /\ (HasChar(last'.table_name, "-") \/ HasChar(last'.table_name, "!")) =>
                /\ last'.outcome = "ValueError"
                /\ tables' = tables /\ views' = views]_vars

\* a dataset with rows was refused for its name while the store held a table
C13_Witness ==
    /\ IsImport
    /\ HasChar(last.table_name, "-")
    /\ Len(last.df.rows) > 0
    /\ last.outcome = "ValueError"
    /\ last.message = "Invalid table name: " \o last.table_name
    /\ "t1" \in DOMAIN tables

\* C14: a successful import_data(D2, N) in replace mode on a store holding a
\* table N leaves N with exactly the rows of D2 and every other table as it
\* was.
C14_ReplaceKeepsOnlyNewRows ==
    [][(/\ last'.op = "import_data"
        /\ last'.outcome = "ok"
        /\ last'.if_exists = "replace"
        /\ last'.table_name \in DOMAIN tables)
          => (/\ DOMAIN tables' = DOMAIN tables
              /\ tables'[last'.table_name].rows = last'.df.rows
              /\ Len(tables'[last'.table_name].rows) = Len(last'.df.rows)
              /\ \A other \in DOMAIN tables \ {last'.table_name} :
                    tables'[other] = tables[other])]_vars

\* RightDf replaced the table t1 while the store held another table
C14_Witness ==
    /\ IsImport
    /\ last.outcome = "ok"
    /\ last.existed
    /\ last.table_name = "t1"
    /\ last.df = RightDf
    /\ tables["t1"] = RightDf
    /\ "t2" \in DOMAIN tables

\* C15: every table the store holds has a name matching [A-Za-z0-9_]+.
C15_TableNamesMatchPattern ==
    \A name \in DOMAIN tables : MatchesNamePattern(name)

\* C16: table_exists returns and never raises, also after close(): true
\* exactly when the name is among the tables get_available_tables lists,
\* false when the listing fails.
C16_TableExistsFailSafe ==
    last.op = "table_exists" =>
        /\ last.outcome = "ok"
        /\ last.result \in BOOLEAN
        /\ connection => (last.result <=> last.table_name \in DOMAIN tables)
        /\ ~connection => ~last.result

\* table_exists was called after close()
C16_Witness ==
    /\ last.op = "table_exists"
    /\ ~connection
    /\ last.result = FALSE

\* C17: execute_query ends with ValueError for an empty or whitespace-only
\* text and with RuntimeError when the execution fails (syntax error, missing
\* table or column); no table of the store is changed in either case.
C17_FailedQueryChangesNothing ==
    [][last'.op = "execute_query" =>
          /\ (\A i \in 1..Len(last'.query) :
                  CharAt(last'.query, i) \in {" ", "\n", "\t"})
                => last'.outcome = "ValueError"
          /\ last'.outcome \in {"ok", "ValueError", "RuntimeError"}
          /\ last'.outcome # "ok" => tables' = tables]_vars

\* C18: on an open store delete_table(N) succeeds whether or not table N
\* exists, leaves no table N and every other table as it was, and a second
\* delete_table(N) changes nothing.
C18_DeleteIdempotent ==
    [][(last'.op = "delete_table" /\ connection) =>
          /\ last'.outcome = "ok"
          /\ last'.table_name \notin DOMAIN tables'
          /\ \A other \in DOMAIN tables \ {last'.table_name} :
                other \in DOMAIN tables' /\ tables'[other] = tables[other]
          /\ (last.op = "delete_table" /\ last.table_name = last'.table_name)
                => tables' = tables]_vars


\* the table an output name stands for: what is between the quotes of a
\* quoted name
Unquoted(text) ==
    IF Len(text) >= 2 /\ CharAt(text, 1) = "\"" /\ CharAt(text, Len(text)) = "\""
    THEN SubSeq(text, 2, Len(text) - 1)
    ELSE text

HasColumn(ds, col) == \E k \in 1..Len(ds.columns) : ds.columns[k] = col

\* the cells of a result row that come from a (its first columns) and from b
LeftPart(out, a, row) ==
    [k \in 1..Len(a.columns) |-> row[out.columns[k]]]

RightPart(out, a, b, row) ==
    [k \in 1..Len(b.columns) |-> row[out.columns[Len(a.columns) + k]]]

CellsOf(ds, row) == [k \in 1..Len(ds.columns) |-> row[ds.columns[k]]]

NullCells(ds) == [k \in 1..Len(ds.columns) |-> Null]

Paired(a, b, col, i, j) ==
    a.rows[i][col].t # "null" /\ a.rows[i][col] = b.rows[j][col]

\* the number of rows of out made of the given left and right cells
Occurrences(out, a, b, left, right) ==
    Cardinality({r \in 1..Len(out.rows) :
        /\ LeftPart(out, a, out.rows[r]) = left
        /\ RightPart(out, a, b, out.rows[r]) = right})

\* out is the full outer join of a and b on col: one row per matching pair,
\* one per row of a without a match and one per row of b without a match (the
\* rows of a, and those of b, being pairwise different), and no other row
IsFullOuterJoin(out, a, b, col) ==
    LET pairs == {p \in (1..Len(a.rows)) \X (1..Len(b.rows)) : Paired(a, b, col, p[1], p[2])}
        lonely_a == {i \in 1..Len(a.rows) : \A j \in 1..Len(b.rows) : ~Paired(a, b, col, i, j)}
        lonely_b == {j \in 1..Len(b.rows) : \A i \in 1..Len(a.rows) : ~Paired(a, b, col, i, j)}
    IN /\ Len(out.columns) = Len(a.columns) + Len(b.columns)
       /\ Len(out.rows) = Cardinality(pairs) + Cardinality(lonely_a) + Cardinality(lonely_b)
       /\ \A p \in pairs :
             Occurrences(out, a, b, CellsOf(a, a.rows[p[1]]), CellsOf(b, b.rows[p[2]])) = 1
       /\ \A i \in lonely_a :
             Occurrences(out, a, b, CellsOf(a, a.rows[i]), NullCells(b)) = 1
       /\ \A j \in lonely_b :
             Occurrences(out, a, b, NullCells(a), CellsOf(b, b.rows[j])) = 1

\* C19: merge_tables(A, B, col, out) either succeeds, adding exactly the table
\* out, which holds the full outer join of A and B on col, and leaving every
\* table the store held unchanged, or ends with RuntimeError and leaves the
\* tables of the store and their contents unchanged; it fails when col is
\* missing from A or from B.
C19_MergeCreatesJoinOrNothing ==
    [][last'.op = "merge_tables" =>
          LET out == Unquoted(last'.output_table)
              t1 == last'.table1
              t2 == last'.table2
              col == last'.on_column
          IN /\ \/ /\ last'.outcome = "ok"
                   /\ out \notin DOMAIN tables
                   /\ DOMAIN tables' = DOMAIN tables \cup {out}
                   /\ \A name \in DOMAIN tables : tables'[name] = tables[name]
                   /\ IsFullOuterJoin(tables'[out], tables[t1], tables[t2], col)
                \/ /\ last'.outcome = "RuntimeError"
                   /\ tables' = tables
             /\ ( /\ t1 \in DOMAIN tables /\ t2 \in DOMAIN tables
                  /\ ~HasColumn(tables[t1], col) \/ ~HasColumn(tables[t2], col) )
                   => last'.outcome = "RuntimeError"]_vars

\* LeftDf and RightDf were merged on id into the table merged: three rows
C19_Witness ==
    /\ last.op = "merge_tables"
    /\ last.outcome = "ok"
    /\ last.output_table = "merged"
    /\ last.on_column = "id"
    /\ "t1" \in DOMAIN tables /\ tables["t1"] = LeftDf
    /\ "t2" \in DOMAIN tables /\ tables["t2"] = RightDf
    /\ "merged" \in DOMAIN tables /\ Len(tables["merged"].rows) = 3


(***************************************************************************)
(* Claims about the results of the KPI operations (checked under Spec).    *)
(***************************************************************************)
\* the table the result of the last KPI call was computed from
ResultTable == tables[last.attempts[Len(last.attempts)].table]

\* the column of ds with the given name, letter case aside
NamedColumn(ds, name) ==
    ds.columns[CHOOSE k \in 1..Len(ds.columns) : Lower(ds.columns[k]) = Lower(name)]

\* the attributes a filter can name in the schema of the table the result
\* was computed from: the secondary schema has no age
SchemaAttributes ==
    IF last.attempts[Len(last.attempts)].table = PrimaryTable
    THEN {"age", "gender", "parental_education_level", "exam_score"}
    ELSE {"gender", "parental_education_level", "exam_score"}

\* whether a row of ds passes the filter entry e (an entry on an attribute the
\* schema in use does not have does not apply)
PassesEntry(ds, row, e) ==
    IF Lower(e.key) \notin SchemaAttributes THEN TRUE
    ELSE LET cell == row[NamedColumn(ds, e.key)]
         IN CASE e.value.t = "str" -> cell = e.value
              [] e.value.t = "tuple" ->
                   /\ cell.t = "int"
                   /\ e.value.items[1].i <= cell.i /\ cell.i <= e.value.items[2].i
              [] OTHER -> TRUE

\* the indices of the rows of ds that pass every entry of fs
Passing(ds, fs) ==
    {r \in 1..Len(ds.rows) : \A e \in 1..Len(fs) : PassesEntry(ds, ds.rows[r], fs[e])}

\* the sum of the exam scores of the rows of ds with the indices of rs
ScoreSum(ds, rs) ==
    LET score == NamedColumn(ds, "exam_score")
        F[k \in 0..Len(ds.rows)] ==
            IF k = 0 THEN 0
            ELSE IF k \in rs /\ ds.rows[k][score].t = "int"
            THEN F[k - 1] + ds.rows[k][score].i
            ELSE F[k - 1]
    IN F[Len(ds.rows)]

CountSum(result) ==
    LET F[k \in 0..Len(result)] == IF k = 0 THEN 0 ELSE F[k - 1] + result[k].count
    IN F[Len(result)]

\* C20: KPI 1 returns one row per distinct gender among the rows that pass
\* the filters, with the mean exam score (sum over number) and the number of
\* rows of the group, ordered by mean descending; the counts add up to the
\* number of rows that pass the filters.
C20_Kpi1GroupsByGender ==
    (IsKpi /\ last.n = 1 /\ last.outcome = "ok") =>
        LET ds == ResultTable
            gender == NamedColumn(ds, "gender")
            passing == Passing(ds, last.fs)
            Members(g) == {r \in passing : ds.rows[r][gender] = g}
            result == last.result
        IN /\ {result[k].group : k \in 1..Len(result)}
                 = {ds.rows[r][gender] : r \in passing}
           /\ \A j, k \in 1..Len(result) : j # k => result[j].group # result[k].group
           /\ \A k \in 1..Len(result) :
                 /\ result[k].count = Cardinality(Members(result[k].group))
                 /\ result[k].average_score.n =
                       Cardinality({r \in Members(result[k].group) :
                                       ds.rows[r][NamedColumn(ds, "exam_score")].t = "int"})
                 /\ result[k].average_score.sum = ScoreSum(ds, Members(result[k].group))
           /\ \A j, k \in 1..Len(result) :
                 j < k => result[j].average_score.sum * result[k].average_score.n
                            >= result[k].average_score.sum * result[j].average_score.n
           /\ CountSum(result) = Cardinality(passing)

\* KPI 1 returned two groups with different means
C20_Witness ==
    /\ IsKpi /\ last.n = 1 /\ last.outcome = "ok"
    /\ Len(last.result) = 2
    /\ last.result[1].average_score.sum * last.result[2].average_score.n
          > last.result[2].average_score.sum * last.result[1].average_score.n

\* the multiple of ten nearest to x (a value halfway between two goes up)
NearestTen(x) == CHOOSE b \in {10 * k : k \in 0..11} : b - 5 <= x /\ x < b + 5

\* the column of ds that KPI n plots against the exam score
MeasureColumn(ds, n) ==
    LET primary == last.attempts[Len(last.attempts)].table = PrimaryTable
    IN NamedColumn(ds,
           CASE n = 2 -> IF primary THEN "study_hours_per_day" ELSE "Hours_Studied"
             [] n = 3 -> IF primary THEN "attendance_percentage" ELSE "Attendance"
             [] n = 4 -> "sleep_hours")

\* the rows of ds that pass the filters and have the measure of KPI n and the
\* exam score both non-null
Complete(ds, fs, n) ==
    {r \in Passing(ds, fs) :
        /\ ds.rows[r][MeasureColumn(ds, n)].t # "null"
        /\ ds.rows[r][NamedColumn(ds, "exam_score")].t # "null"}

\* C21: KPI 3 puts every row that passes the filters and has attendance and
\* exam score non-null into the bin round(attendance/10)*10, and returns one
\* row per non-empty bin with the mean exam score and the number of rows of
\* the bin, ordered by bin ascending; the counts add up to the number of
\* such rows.
C21_Kpi3BinsByAttendance ==
    (IsKpi /\ last.n = 3 /\ last.outcome = "ok") =>
        LET ds == ResultTable
            attendance == MeasureColumn(ds, 3)
            complete == Complete(ds, last.fs, 3)
            Members(b) == {r \in complete : NearestTen(ds.rows[r][attendance].i) = b}
            result == last.result
        IN /\ {result[k].attendance_range.i : k \in 1..Len(result)}
                 = {NearestTen(ds.rows[r][attendance].i) : r \in complete}
           /\ \A k \in 1..Len(result) :
                 /\ result[k].count = Cardinality(Members(result[k].attendance_range.i))
                 /\ result[k].average_score.n = result[k].count
                 /\ result[k].average_score.sum =
                       ScoreSum(ds, Members(result[k].attendance_range.i))
           /\ \A j, k \in 1..Len(result) :
                 j < k => result[j].attendance_range.i < result[k].attendance_range.i
           /\ CountSum(result) = Cardinality(complete)

\* KPI 3 returned two bins, one of them of a row halfway between two bins,
\* from a table with rows it leaves out for a null attendance or exam score
C21_Witness ==
    /\ IsKpi /\ last.n = 3 /\ last.outcome = "ok"
    /\ Len(last.result) = 2
    /\ Cardinality(Complete(ResultTable, last.fs, 3)) = 2
    /\ \E r \in Complete(ResultTable, last.fs, 3) :
          ResultTable.rows[r][MeasureColumn(ResultTable, 3)].i % 10 = 5
    /\ \E r \in Passing(ResultTable, last.fs) :
          ResultTable.rows[r][MeasureColumn(ResultTable, 3)].t = "null"
    /\ \E r \in Passing(ResultTable, last.fs) :
          ResultTable.rows[r][NamedColumn(ResultTable, "exam_score")].t = "null"

\* the name of the hours column in the result of KPI n
HoursField(n) == IF n = 2 THEN "study_hours" ELSE "sleep_hours"

\* C22: KPI 2 and KPI 4 return exactly one (hours, exam_score) pair for each
\* row that passes the filters and has both values non-null, no pair for a
\* row where either value is null, and the pairs are ordered by the hours
\* column ascending.
C22_PairsOrderedByHours ==
    (IsKpi /\ last.n \in {2, 4} /\ last.outcome = "ok") =>
        LET ds == ResultTable
            hours == MeasureColumn(ds, last.n)
            score == NamedColumn(ds, "exam_score")
            complete == Complete(ds, last.fs, last.n)
            result == last.result
            Pair(k) == <<result[k][HoursField(last.n)], result[k].exam_score>>
            RowPair(r) == <<ds.rows[r][hours], ds.rows[r][score]>>
        IN /\ Len(result) = Cardinality(complete)
           /\ \A k \in 1..Len(result) :
                 Cardinality({j \in 1..Len(result) : Pair(j) = Pair(k)})
                    = Cardinality({r \in complete : RowPair(r) = Pair(k)})
           /\ \A k \in 1..Len(result) :
                 Pair(k)[1].t # "null" /\ Pair(k)[2].t # "null"
           /\ \A j, k \in 1..Len(result) :
                 j < k => Pair(j)[1].i <= Pair(k)[1].i

\* KPI 2 or KPI 4 returned at least two pairs, in another order than the
\* rows of the table, from a table with a row it leaves out for a null hours
\* value and a row it leaves out for a null exam score
C22_Witness ==
    /\ IsKpi /\ last.n \in {2, 4} /\ last.outcome = "ok"
    /\ Len(last.result) >= 2
    /\ \E r \in Passing(ResultTable, last.fs) :
          ResultTable.rows[r][MeasureColumn(ResultTable, last.n)].t = "null"
    /\ \E r \in Passing(ResultTable, last.fs) :
          ResultTable.rows[r][NamedColumn(ResultTable, "exam_score")].t = "null"
    /\ \E r, q \in Complete(ResultTable, last.fs, last.n) :
          /\ r < q
          /\ ResultTable.rows[q][MeasureColumn(ResultTable, last.n)].i
                < ResultTable.rows[r][MeasureColumn(ResultTable, last.n)].i

(***************************************************************************)
(* Claims about the values and the column lists the KPI filter injector    *)
(* is given (checked under SpecFilter).                                    *)
(***************************************************************************)
\* an entry C26 says is passed over: a boolean, a list, or a range on an
\* attribute other than age
Silent26(e) ==
    \/ e.value.t \in {"bool", "list"}
    \/ e.value.t = "tuple" /\ e.key # "age"

\* C26: a boolean value, a list value, or a range value on an attribute other
\* than age emits no predicate and raises no error; the predicates of the
\* other entries of the same FilterSpec are still emitted (the query is the
\* one the FilterSpec without those entries gives).
C26_UnsupportedValuesSilent ==
    IsInject =>
        ret.query = ApplyFiltersToQuery(args.base,
                        SelectSeq(args.fs, LAMBDA e : ~Silent26(e)), args.cols)

\* C27: whenever a knownColumns list is passed, the empty list included,
\* every predicate emitted names a column that is an element of the list;
\* with the empty list every entry is skipped and the base query is returned
\* unchanged.
C27_PredicatesNameKnownColumns ==
    (IsInject /\ args.cols.given) =>
        /\ \A k \in 1..Len(KpiConditions(args.fs, args.cols)) :
              \E c \in 1..Len(args.cols.cols) :
                  KpiConditions(args.fs, args.cols)[k].col = args.cols.cols[c]
        /\ Len(args.cols.cols) = 0 => ret.query = args.base

(***************************************************************************)
(* Claims about calculate_correlation_coefficient (checked under           *)
(* SpecCorrelation).                                                       *)
(***************************************************************************)
\* C25: calculate_correlation_coefficient returns exactly 0.0, without
\* raising, whenever either of the two sequences has fewer than 2 elements.
C25_ShortSeriesGiveZero ==
    ( /\ ret.op = "calculate_correlation_coefficient"
      /\ Len(args.x) < 2 \/ Len(args.y) < 2 )
        => ret.outcome = "ok" /\ ret.value = Zero

\* the call returned 0.0 for one series of one element and one of three
C25_Witness ==
    /\ ret.op = "calculate_correlation_coefficient"
    /\ Len(args.x) = 1 /\ Len(args.y) = 3
    /\ ret.outcome = "ok" /\ ret.value = Zero

(***************************************************************************)
(* Claims about the if_exists modes of import_data (checked under          *)
(* SpecImport).                                                            *)
(***************************************************************************)
\* C24: when a table N already exists, import_data with 'replace' replaces
\* the contents of N with the dataset, with 'append' adds the rows of the
\* dataset to the existing rows of N (a dataset with the columns of N), and
\* with 'fail' raises and leaves N with its old contents.
C24_IfExistsHonoured ==
    [][ (last'.op = "import_data" /\ last'.existed) =>
          LET N == last'.table_name
              df == last'.df
          IN CASE last'.if_exists = "replace" ->
                    last'.outcome = "ok" /\ N \in DOMAIN tables' /\ tables'[N] = df
               [] last'.if_exists = "append" ->
                    tables[N].columns = df.columns =>
                        /\ last'.outcome = "ok"
                        /\ N \in DOMAIN tables'
                        /\ tables'[N].rows = tables[N].rows \o df.rows
               [] last'.if_exists = "fail" ->
                    /\ last'.outcome # "ok"
                    /\ N \in DOMAIN tables' /\ tables'[N] = tables[N]
      ]_vars

(***************************************************************************)
(* Claims about the page: the loaded flag, the FilterSpec of a run and the *)
(* KPI section (checked under SpecSession).                                *)
(***************************************************************************)
\* the last run rendered the KPI section
RenderedKpis == last.op = "run" /\ last.kpi

\* C23: in one rendering of the KPI section all four KPI computations are
\* attempted, and a failure of one of them is reported in its own section
\* only: every section shows what the outcome of its own calculation, on the
\* store and the FilterSpec of the run, makes it show.
C23_EachKpiOnItsOwn ==
    RenderedKpis =>
        \A n \in 1..4 :
            /\ last.sections[n].attempted
            /\ \E out \in KpiOutcomes(n, last.fs, connection, tables, views) :
                  /\ last.sections[n].shown = (IF out.outcome # "ok" THEN "error"
                                               ELSE IF out.result = <<>> THEN "info"
                                               ELSE "chart")
                  /\ last.sections[n].data = out.result
                  /\ out.outcome # "ok" =>
                        last.sections[n].message =
                            "Error calculating KPI " \o ToString(n) \o ": " \o out.message

\* KPI 2 failed and the sections of KPI 1, 3 and 4 show their charts
C23_Witness ==
    /\ RenderedKpis
    /\ last.sections[2].shown = "error"
    /\ last.sections[1].shown = "chart"
    /\ last.sections[3].shown = "chart"
    /\ last.sections[4].shown = "chart"

\* C28: in every reachable session state the loaded flag is true only if at
\* least one of the tables student_habits_performance and
\* student_performance_factors exists in the store.
C28_LoadedOnlyWithATable ==
    session.data_loaded =>
        (PrimaryTable \in DOMAIN tables \/ SecondaryTable \in DOMAIN tables)

\* C29: whenever an upload interaction imports at least one of the two files
\* into the store, the loaded flag is true at the end of that interaction,
\* even if processing the other file failed.
C29_ImportSetsLoaded ==
    (last.op = "run" /\ last.imported # {}) => session.data_loaded

\* C30: after the user presses Clear Filters, the FilterSpec that the next
\* KPI recomputation uses is empty.
C30_ClearEmptiesFilterSpec ==
    [][ (session.rerun /\ last'.op = "run" /\ last'.kpi) => last'.fs = <<>> ]_vars

=============================================================================
